---- MODULE Spec2Model ----
(***************************************************************************)
(* Value conversion layer of rust_mysql_common (src/value/convert.rs):     *)
(* the two-phase ConvIr protocol (new / commit / rollback), the typed      *)
(* conversions built on it, the reverse construction From<T> for Value,    *)
(* and the two temporal text parsers.                                      *)
(*                                                                         *)
(* Numbers.  The model checker's integers are 32 bits wide, the program's  *)
(* are up to 64.  A 64-bit quantity is therefore kept as a Num: four       *)
(* limbs <<a3, a2, a1, a0>> in base 2^16 standing for the mathematical     *)
(* integer a3*2^48 + a2*2^32 + a1*2^16 + a0, the three low limbs in        *)
(* 0..65535 and the top limb signed.  Rust's `as` casts are the explicit   *)
(* operator Wrap (reduction modulo 2^bits, then the signed reading).       *)
(* The 8/16/32-bit fields of Value::Date and Value::Time are plain         *)
(* integers.  A u32 the text parsers return is a plain integer too: below  *)
(* 2^31 it is its value, and from 2^31 on it is the integer with the same  *)
(* 32 bits, its value minus 2^32 (so u32::MAX is written -1, and `as i32`  *)
(* leaves it as it is).                                                    *)
(*                                                                         *)
(* Bytes are sequences of integers 0..255.                                 *)
(*                                                                         *)
(* Outside the model: the Timespec target (it depends on the host's local  *)
(* UTC offset and on the time crate's strptime).                           *)
(***************************************************************************)
EXTENDS Integers, Sequences, FiniteSets, TLC

VARIABLES
    pc,       \* which operation was performed last
    build,    \* "debug" (overflow checks on) or "release" (wrapping)
    target,   \* conversion: the target type T
    src,      \* conversion: the source Value
    res,      \* conversion: what ConvIr::new returned
    out,      \* conversion: what commit / rollback / from_value_opt returned
    host,     \* encoding: the host integer type and value
    enc,      \* encoding: Value::from(host value)
    dec,      \* encoding: from_value_opt of enc at the host type
    reenc,    \* encoding: Value::from of the decoded value
    text,     \* parsing: the input bytes
    parsed,   \* parsing: what the parser returned
    row,      \* row: the Row (values and columns), or no row
    arg,      \* row: the arguments of the last call
    ret       \* row: what the last call returned

vars == <<pc, build, target, src, res, out, host, enc, dec, reenc, text, parsed, row, arg, ret>>

None == <<>>
Some(x) == <<x>>

(***************************************************************************)
(* Num: 64-bit arithmetic on limbs.                                        *)
(***************************************************************************)
Limb == 2 ^ 16

\* Carries propagated upwards; floor division makes this right for negative limbs.
Norm(a) ==
    LET c0 == a[4] \div Limb
        s1 == a[3] + c0
        c1 == s1 \div Limb
        s2 == a[2] + c1
        c2 == s2 \div Limb
    IN  <<a[1] + c2, s2 % Limb, s1 % Limb, a[4] % Limb>>

NumOf(n) == Norm(<<0, 0, 0, n>>)
NumAdd(x, y) == Norm(<<x[1] + y[1], x[2] + y[2], x[3] + y[3], x[4] + y[4]>>)
NumNeg(x) == Norm(<<0 - x[1], 0 - x[2], 0 - x[3], 0 - x[4]>>)
NumSub(x, y) == NumAdd(x, NumNeg(y))

NumLe(x, y) ==
    \/ x[1] < y[1]
    \/ x[1] = y[1] /\ x[2] < y[2]
    \/ x[1] = y[1] /\ x[2] = y[2] /\ x[3] < y[3]
    \/ x[1] = y[1] /\ x[2] = y[2] /\ x[3] = y[3] /\ x[4] <= y[4]

NumLt(x, y) == NumLe(x, y) /\ x # y

\* 2^k for k in 0..64.
Pow2(k) ==
    LET p == 2 ^ (k % 16)
    IN  CASE k \div 16 = 0 -> <<0, 0, 0, p>>
          [] k \div 16 = 1 -> <<0, 0, p, 0>>
          [] k \div 16 = 2 -> <<0, p, 0, 0>>
          [] OTHER         -> <<p * (Limb ^ ((k \div 16) - 3)), 0, 0, 0>>

\* `x as <bits-wide integer>`: the low `bits` bits of x, read signed or unsigned.
Wrap(x, bits, signed) ==
    LET m == CASE bits = 8  -> <<0, 0, 0, x[4] % 256>>
               [] bits = 16 -> <<0, 0, 0, x[4]>>
               [] bits = 32 -> <<0, 0, x[3], x[4]>>
               [] OTHER     -> <<x[1] % Limb, x[2], x[3], x[4]>>
    IN  IF signed /\ NumLe(Pow2(bits - 1), m) THEN NumSub(m, Pow2(bits)) ELSE m

(***************************************************************************)
(* The integer types of impl_from_value_num / into_value_impl.             *)
(***************************************************************************)
IntTypes == {"i8", "u8", "i16", "u16", "i32", "u32", "i64", "u64", "isize", "usize"}

\* Pointer width of the build target (isize / usize).
PointerBits == 64

TypeBits(t) ==
    CASE t \in {"i8", "u8"}       -> 8
      [] t \in {"i16", "u16"}     -> 16
      [] t \in {"i32", "u32"}     -> 32
      [] t \in {"i64", "u64"}     -> 64
      [] t \in {"isize", "usize"} -> PointerBits

TypeSigned(t) == t \in {"i8", "i16", "i32", "i64", "isize"}

\* ::std::$t::MIN and ::std::$t::MAX
TypeMin(t) == IF TypeSigned(t) THEN NumNeg(Pow2(TypeBits(t) - 1)) ELSE NumOf(0)
TypeMax(t) ==
    IF TypeSigned(t) THEN NumSub(Pow2(TypeBits(t) - 1), NumOf(1))
    ELSE NumSub(Pow2(TypeBits(t)), NumOf(1))

I64Min == TypeMin("i64")
I64Max == TypeMax("i64")
U64Max == TypeMax("u64")

AsI64(x) == Wrap(x, 64, TRUE)
AsU64(x) == Wrap(x, 64, FALSE)
AsType(x, t) == Wrap(x, TypeBits(t), TypeSigned(t))

(***************************************************************************)
(* Bytes and text.                                                         *)
(***************************************************************************)
\* The ASCII code of a character of the model's alphabet.
Byte(c) ==
    CASE c = "0" -> 48 [] c = "1" -> 49 [] c = "2" -> 50 [] c = "3" -> 51
      [] c = "4" -> 52 [] c = "5" -> 53 [] c = "6" -> 54 [] c = "7" -> 55
      [] c = "8" -> 56 [] c = "9" -> 57 [] c = "-" -> 45 [] c = "+" -> 43
      [] c = ":" -> 58 [] c = "." -> 46 [] c = " " -> 32 [] c = "a" -> 97
      [] c = "b" -> 98 [] c = "c" -> 99 [] c = "t" -> 116 [] c = "r" -> 114
      [] c = "u" -> 117 [] c = "e" -> 101 [] c = "T" -> 84

Str(s) == [i \in 1..Len(s) |-> Byte(s[i])]

IsAsciiDigit(b) == 48 <= b /\ b <= 57

\* bytes[from..to) with 0-based offsets, as Rust's &bytes[from..to]
Slice(bytes, from, to) == SubSeq(bytes, from + 1, to)

\* A continuation byte 10xxxxxx at 1-based index k
IsContinuation(bytes, k) == k <= Len(bytes) /\ 128 <= bytes[k] /\ bytes[k] <= 191

\* The UTF-8 sequence that starts at index i <= Len(bytes): its width in bytes
\* and the code point its bits spell; width 0 when the lead byte or one of the
\* continuation bytes it asks for is missing
ScalarAt(bytes, i) ==
    CASE bytes[i] < 128 -> [width |-> 1, cp |-> bytes[i]]
      [] /\ 192 <= bytes[i] /\ bytes[i] <= 223
         /\ IsContinuation(bytes, i + 1) ->
            [width |-> 2, cp |-> (bytes[i] - 192) * 64 + (bytes[i + 1] - 128)]
      [] /\ 224 <= bytes[i] /\ bytes[i] <= 239
         /\ IsContinuation(bytes, i + 1) /\ IsContinuation(bytes, i + 2) ->
            [width |-> 3,
             cp |-> (bytes[i] - 224) * 4096 + (bytes[i + 1] - 128) * 64 + (bytes[i + 2] - 128)]
      [] /\ 240 <= bytes[i] /\ bytes[i] <= 247
         /\ IsContinuation(bytes, i + 1) /\ IsContinuation(bytes, i + 2)
         /\ IsContinuation(bytes, i + 3) ->
            [width |-> 4,
             cp |-> (bytes[i] - 240) * 262144 + (bytes[i + 1] - 128) * 4096
                    + (bytes[i + 2] - 128) * 64 + (bytes[i + 3] - 128)]
      [] OTHER -> [width |-> 0, cp |-> 0 - 1]

\* The sequence is the encoding of a Unicode scalar value: the shortest
\* encoding of its code point (no overlong form), no surrogate U+D800..U+DFFF,
\* nothing above U+10FFFF
IsScalar(sc) ==
    /\ sc.width > 0
    /\ sc.width = 2 => sc.cp >= 128
    /\ sc.width = 3 => sc.cp >= 2048 /\ ~(55296 <= sc.cp /\ sc.cp <= 57343)
    /\ sc.width = 4 => sc.cp >= 65536 /\ sc.cp <= 1114111

\* std::str::from_utf8(..).is_ok() / String::from_utf8(..).is_ok(): every
\* sequence from index i on is the encoding of a scalar value
RECURSIVE Utf8From(_, _)
Utf8From(bytes, i) ==
    IF i > Len(bytes) THEN TRUE
    ELSE /\ IsScalar(ScalarAt(bytes, i))
         /\ Utf8From(bytes, i + ScalarAt(bytes, i).width)

IsUtf8(bytes) == Utf8From(bytes, 1)

(***************************************************************************)
(* lexical::try_parse and lexical::parse (external crate; modelled at the  *)
(* places convert.rs calls them).                                          *)
(***************************************************************************)
\* acc * 10^n + d for n <= 4 digits at once, saturating at 2^64 (anything above
\* u64::MAX is an overflow anyway)
MulPow10Add(acc, n, d) ==
    LET k  == 10 ^ n
        nx == Norm(<<acc[1] * k, acc[2] * k, acc[3] * k, acc[4] * k + d>>)
    IN  IF nx[1] >= Limb THEN Pow2(64) ELSE nx

\* The value of the n <= 4 ASCII digits at digits[i..i+n-1]
ChunkValue(digits, i, n) ==
    LET D(k) == IF k < n THEN (digits[i + k] - 48) * (10 ^ (n - 1 - k)) ELSE 0
    IN  D(0) + D(1) + D(2) + D(3)

\* The number a string of ASCII digits writes, accumulated four digits at a time
RECURSIVE Magnitude(_, _, _)
Magnitude(digits, i, acc) ==
    IF i > Len(digits) THEN acc
    ELSE LET n == IF Len(digits) - i + 1 < 4 THEN Len(digits) - i + 1 ELSE 4
         IN  Magnitude(digits, i + n, MulPow10Add(acc, n, ChunkValue(digits, i, n)))

\* try_parse::<t>(bytes) for an integer type t: an optional sign ('-' only for a
\* signed type), then one or more ASCII digits and nothing else, in t's range.
TryParseInt(bytes, t) ==
    LET signed == Len(bytes) > 0 /\ bytes[1] \in {Byte("-"), Byte("+")}
        neg    == Len(bytes) > 0 /\ bytes[1] = Byte("-")
        digits == IF signed THEN Tail(bytes) ELSE bytes
        mag    == Magnitude(digits, 1, NumOf(0))
        val    == IF neg THEN NumNeg(mag) ELSE mag
        ok     == /\ Len(digits) > 0
                  /\ \A k \in 1..Len(digits) : IsAsciiDigit(digits[k])
                  /\ ~(neg /\ ~TypeSigned(t))
                  /\ NumLe(TypeMin(t), val) /\ NumLe(val, TypeMax(t))
    IN  IF ok THEN [ok |-> TRUE, val |-> val] ELSE [ok |-> FALSE]

\* try_parse::<f32 / f64>(bytes), on the decimal subset [-+]digits[.digits]; the
\* parsed float is kept as its sign, integer digits and fraction digits.
TryParseFloat(bytes) ==
    LET signed == Len(bytes) > 0 /\ bytes[1] \in {Byte("-"), Byte("+")}
        neg    == Len(bytes) > 0 /\ bytes[1] = Byte("-")
        body   == IF signed THEN Tail(bytes) ELSE bytes
        dots   == {k \in 1..Len(body) : body[k] = Byte(".")}
        dot    == IF dots = {} THEN Len(body) + 1 ELSE CHOOSE k \in dots : \A j \in dots : k <= j
        ip     == SubSeq(body, 1, dot - 1)
        fp     == SubSeq(body, dot + 1, Len(body))
        ok     == /\ Len(ip) > 0
                  /\ dots = {} \/ Len(fp) > 0
                  /\ \A k \in 1..Len(ip) : IsAsciiDigit(ip[k])
                  /\ \A k \in 1..Len(fp) : IsAsciiDigit(fp[k])
    IN  IF ok THEN [ok |-> TRUE, val |-> [neg |-> neg, int |-> ip, frac |-> fp]]
        ELSE [ok |-> FALSE]

\* parse::<u32>(bytes): never fails; the value of the leading ASCII digits (0 when
\* there are none).  A slice that starts with a sign is read past the sign, and a
\* '-' yields the wrapped negation 2^32 - v of the digits' value v: b"-1" is
\* u32::MAX, written -1 (the same 32 bits), and b"-0" is 0.
RECURSIVE ParseDigits(_, _, _)
ParseDigits(bytes, i, acc) ==
    IF i > Len(bytes) \/ ~IsAsciiDigit(bytes[i]) THEN acc
    ELSE ParseDigits(bytes, i + 1, acc * 10 + (bytes[i] - 48))

ParseU32(bytes) ==
    CASE Len(bytes) > 0 /\ bytes[1] = Byte("-") -> 0 - ParseDigits(bytes, 2, 0)
      [] Len(bytes) > 0 /\ bytes[1] = Byte("+") -> ParseDigits(bytes, 2, 0)
      [] OTHER -> ParseDigits(bytes, 1, 0)

(***************************************************************************)
(* Value (crate::value::Value) and the results of a conversion.            *)
(***************************************************************************)
ValueNULL == [tag |-> "NULL"]
ValueInt(x) == [tag |-> "Int", i |-> x]
ValueUInt(x) == [tag |-> "UInt", u |-> x]
ValueFloat(x) == [tag |-> "Float", f |-> x]
ValueBytes(b) == [tag |-> "Bytes", bytes |-> b]
ValueDate(y, m, d, h, i, s, u) ==
    [tag |-> "Date", year |-> y, month |-> m, day |-> d,
     hour |-> h, minute |-> i, second |-> s, micros |-> u]
ValueTime(neg, d, h, m, s, u) ==
    [tag |-> "Time", neg |-> neg, days |-> d,
     hours |-> h, minutes |-> m, seconds |-> s, micros |-> u]

\* Result<Ir, FromValueError>; Panic and Hang are the two ways a call does not return.
Ok(ir) == [tag |-> "Ok", ir |-> ir]
Err(v) == [tag |-> "Err", value |-> v]
Panic == [tag |-> "Panic"]
Hang == [tag |-> "Hang"]

ParseIr(value, output) == [kind |-> "ParseIr", value |-> value, output |-> output]

(***************************************************************************)
(* Integer targets.                                                        *)
(***************************************************************************)
\* The macro without its `if max < 0 { max = i64::MAX }` correction.
IntInRangeNoFix(x, min, max) == NumLe(min, x) /\ NumLe(x, max)

\* if max < 0 { max = ::std::i64::MAX }  if min <= x && x <= max
IntInRange(x, min, max) ==
    /\ NumLe(min, x)
    /\ NumLe(x, IF NumLt(max, NumOf(0)) THEN I64Max ELSE max)

\* Ok(ParseIr { value: Value::Bytes(bytes), output: x }) or the bytes back
ParsedIr(x, bytes) ==
    IF x.ok THEN Ok(ParseIr(ValueBytes(bytes), x.val)) ELSE Err(ValueBytes(bytes))

\* impl_from_value_num: i8, u8, i16, u16, i32, u32, isize, usize
NewNum(t, v) ==
    CASE v.tag = "Int" ->
            IF IntInRange(v.i, AsI64(TypeMin(t)), AsI64(TypeMax(t)))
            THEN Ok(ParseIr(ValueInt(v.i), AsType(v.i, t)))
            ELSE Err(ValueInt(v.i))
      [] v.tag = "UInt" /\ NumLe(v.u, AsU64(TypeMax(t))) ->
            Ok(ParseIr(ValueUInt(v.u), AsType(v.u, t)))
      [] v.tag = "Bytes" -> ParsedIr(TryParseInt(v.bytes, t), v.bytes)
      [] OTHER -> Err(v)

NewI64(v) ==
    CASE v.tag = "Int" -> Ok(ParseIr(ValueInt(v.i), v.i))
      [] v.tag = "UInt" /\ NumLe(v.u, AsU64(I64Max)) ->
            Ok(ParseIr(ValueUInt(v.u), AsI64(v.u)))
      [] v.tag = "Bytes" -> ParsedIr(TryParseInt(v.bytes, "i64"), v.bytes)
      [] OTHER -> Err(v)

NewU64(v) ==
    CASE v.tag = "Int" /\ NumLe(NumOf(0), v.i) ->
            Ok(ParseIr(ValueInt(v.i), AsU64(v.i)))
      [] v.tag = "UInt" -> Ok(ParseIr(ValueUInt(v.u), v.u))
      [] v.tag = "Bytes" -> ParsedIr(TryParseInt(v.bytes, "u64"), v.bytes)
      [] OTHER -> Err(v)

(***************************************************************************)
(* Floats.  A Value::Float payload is one of a few named f64 values.       *)
(***************************************************************************)
FloatValues == {"0.0", "1.5", "-2.5", "0.1", "1e39", "-1e39", "NaN"}

\* x >= f32::MIN as f64 && x <= f32::MAX as f64
InF32Range(x) == x \in {"0.0", "1.5", "-2.5", "0.1"}

\* x as f32: the nearest f32
AsF32(x) == IF x = "0.1" THEN "0.100000001490116119384765625" ELSE x

NewF32(v) ==
    CASE v.tag = "Float" /\ InF32Range(v.f) -> Ok(ParseIr(ValueFloat(v.f), AsF32(v.f)))
      [] v.tag = "Bytes" -> ParsedIr(TryParseFloat(v.bytes), v.bytes)
      [] OTHER -> Err(v)

NewF64(v) ==
    CASE v.tag = "Float" -> Ok(ParseIr(ValueFloat(v.f), v.f))
      [] v.tag = "Bytes" -> ParsedIr(TryParseFloat(v.bytes), v.bytes)
      [] OTHER -> Err(v)

(***************************************************************************)
(* bool, String, Vec<u8>, Uuid, Value.                                     *)
(***************************************************************************)
\* A slip that keeps Value::Int(1) as the saved value of both integer arms.
NewBoolSavesOne(v) ==
    CASE v.tag = "Int" /\ v.i = NumOf(0) -> Ok(ParseIr(ValueInt(NumOf(1)), FALSE))
      [] v.tag = "Int" /\ v.i = NumOf(1) -> Ok(ParseIr(ValueInt(NumOf(1)), TRUE))
      [] v.tag = "Bytes" /\ Len(v.bytes) = 1 /\ v.bytes[1] = 48 ->
            Ok(ParseIr(ValueBytes(v.bytes), FALSE))
      [] v.tag = "Bytes" /\ Len(v.bytes) = 1 /\ v.bytes[1] = 49 ->
            Ok(ParseIr(ValueBytes(v.bytes), TRUE))
      [] OTHER -> Err(v)

\* General truthiness: any one-byte text other than "0" is true, UInt is accepted.
NewBoolTruthy(v) ==
    CASE v.tag = "Int" /\ v.i = NumOf(0) -> Ok(ParseIr(ValueInt(NumOf(0)), FALSE))
      [] v.tag = "Int" /\ v.i = NumOf(1) -> Ok(ParseIr(ValueInt(NumOf(1)), TRUE))
      [] v.tag = "UInt" /\ v.u \in {NumOf(0), NumOf(1)} ->
            Ok(ParseIr(ValueUInt(v.u), v.u = NumOf(1)))
      [] v.tag = "Bytes" /\ Len(v.bytes) = 1 ->
            Ok(ParseIr(ValueBytes(v.bytes), v.bytes[1] # 48))
      [] OTHER -> Err(v)

NewBool(v) ==
    CASE v.tag = "Int" /\ v.i = NumOf(0) -> Ok(ParseIr(ValueInt(NumOf(0)), FALSE))
      [] v.tag = "Int" /\ v.i = NumOf(1) -> Ok(ParseIr(ValueInt(NumOf(1)), TRUE))
      [] v.tag = "Bytes" ->
            IF Len(v.bytes) = 1
            THEN CASE v.bytes[1] = 48 -> Ok(ParseIr(ValueBytes(v.bytes), FALSE))
                   [] v.bytes[1] = 49 -> Ok(ParseIr(ValueBytes(v.bytes), TRUE))
                   [] OTHER           -> Err(ValueBytes(v.bytes))
            ELSE Err(ValueBytes(v.bytes))
      [] OTHER -> Err(v)

NewString(v) ==
    CASE v.tag = "Bytes" ->
            IF IsUtf8(v.bytes) THEN Ok([kind |-> "StringIr", bytes |-> v.bytes])
            ELSE Err(ValueBytes(v.bytes))
      [] OTHER -> Err(v)

NewBytes(v) ==
    CASE v.tag = "Bytes" -> Ok([kind |-> "BytesIr", bytes |-> v.bytes])
      [] OTHER -> Err(v)

\* Uuid::from_slice succeeds on exactly 16 bytes
NewUuid(v) ==
    CASE v.tag = "Bytes" ->
            IF Len(v.bytes) = 16
            THEN Ok([kind |-> "UuidIr", val |-> [uuid |-> v.bytes], bytes |-> v.bytes])
            ELSE Err(ValueBytes(v.bytes))
      [] OTHER -> Err(v)

\* impl ConvIr<Value> for Value: the intermediate is the value itself
NewValue(v) == Ok(v)

(***************************************************************************)
(* The byte regexes of lazy_static!.  regex::bytes::Regex is built with    *)
(* its defaults, under which \d is the Unicode class Nd: it accepts the    *)
(* UTF-8 encoding of any decimal digit, not only the ASCII bytes '0'..'9'. *)
(* The automaton accepts well-formed encodings only.  The classes [0-5]    *)
(* and [0-8] are ASCII ranges.                                             *)
(***************************************************************************)
\* The code points of general category Nd (decimal digit), Unicode 16.0, as
\* runs <<first, last>>: ten digits from each zero listed, the ten MYANMAR
\* EASTERN PWO KAREN digits that follow the MYANMAR PAO ones (U+116D0..U+116E3)
\* and the fifty MATHEMATICAL digits (U+1D7CE..U+1D7FF)
NdRuns ==
    {<<z, z + 9>> : z \in
        {48, 1632, 1776, 1984, 2406, 2534, 2662, 2790, 2918, 3046, 3174, 3302,
         3430, 3558, 3664, 3792, 3872, 4160, 4240, 6112, 6160, 6470, 6608, 6784,
         6800, 6992, 7088, 7232, 7248, 42528, 43216, 43264, 43472, 43504, 43600,
         44016, 65296, 66720, 68912, 68928, 69734, 69872, 69942, 70096, 70384,
         70736, 70864, 71248, 71360, 71376, 71472, 71904, 72016, 72688, 72784,
         73040, 73120, 73552, 90416, 92768, 92864, 93008, 93552, 118000, 123200,
         123632, 124144, 124401, 125264, 130032}}
    \cup {<<71376, 71395>>, <<120782, 120831>>}

IsNd(cp) == \E r \in NdRuns : r[1] <= cp /\ cp <= r[2]

\* The width of the sequence when it encodes a decimal digit, else 0
DigitWidthOf(sc) == IF IsScalar(sc) /\ IsNd(sc.cp) THEN sc.width ELSE 0

\* How many bytes \d consumes at 1-based index i; 0 when it does not match there.
DigitWidth(bytes, i) ==
    CASE i > Len(bytes) -> 0
      [] IsAsciiDigit(bytes[i]) -> 1
      [] OTHER -> DigitWidthOf(ScalarAt(bytes, i))

\* The number of \d matches from index i to the end of the input; -1 when some
\* byte on the way starts no digit.
RECURSIVE DigitRun(_, _)
DigitRun(bytes, i) ==
    IF i > Len(bytes) THEN 0
    ELSE LET w == DigitWidth(bytes, i)
             r == DigitRun(bytes, i + w)
         IN  IF w = 0 \/ r < 0 THEN 0 - 1 ELSE r + 1

\* ^pat$ from token k of pat at index i.  Tokens: "d" is \d, "[0-5]" and "[0-8]"
\* the ASCII ranges, "d{1,6}" the closing \d{1,6}, anything else that literal.
RECURSIVE MatchFrom(_, _, _, _)
MatchFrom(pat, k, bytes, i) ==
    IF k > Len(pat) THEN i = Len(bytes) + 1
    ELSE CASE pat[k] = "d" ->
                /\ DigitWidth(bytes, i) > 0
                /\ MatchFrom(pat, k + 1, bytes, i + DigitWidth(bytes, i))
           [] pat[k] = "[0-5]" ->
                /\ i <= Len(bytes) /\ 48 <= bytes[i] /\ bytes[i] <= 53
                /\ MatchFrom(pat, k + 1, bytes, i + 1)
           [] pat[k] = "[0-8]" ->
                /\ i <= Len(bytes) /\ 48 <= bytes[i] /\ bytes[i] <= 56
                /\ MatchFrom(pat, k + 1, bytes, i + 1)
           [] pat[k] = "d{1,6}" ->
                /\ 1 <= DigitRun(bytes, i) /\ DigitRun(bytes, i) <= 6
           [] OTHER ->
                /\ i <= Len(bytes) /\ bytes[i] = Byte(pat[k])
                /\ MatchFrom(pat, k + 1, bytes, i + 1)

IsMatch(pat, bytes) == MatchFrom(pat, 1, bytes, 1)

DATETIME_RE_YMD == <<"d", "d", "d", "d", "-", "d", "d", "-", "d", "d">>
DATETIME_RE_YMD_HMS == DATETIME_RE_YMD \o <<" ", "d", "d", ":", "d", "d", ":", "d", "d">>
DATETIME_RE_YMD_HMS_NS == DATETIME_RE_YMD_HMS \o <<".", "d{1,6}">>
TIME_RE_HH_MM_SS == <<"d", "d", ":", "[0-5]", "d", ":", "[0-5]", "d">>
TIME_RE_HH_MM_SS_MS == TIME_RE_HH_MM_SS \o <<".", "d{1,6}">>
TIME_RE_HHH_MM_SS == <<"[0-8]", "d", "d", ":", "[0-5]", "d", ":", "[0-5]", "d">>
TIME_RE_HHH_MM_SS_MS == TIME_RE_HHH_MM_SS \o <<".", "d{1,6}">>

(***************************************************************************)
(* parse_micros, parse_mysql_datetime_string, parse_mysql_time_string.     *)
(***************************************************************************)
NoMatch == [tag |-> "None"]
Match(fields) == [tag |-> "Some", fields |-> fields]

\* pad_zero_cnt: the number of leading b'0' bytes
RECURSIVE LeadingZeros(_, _)
LeadingZeros(bytes, i) ==
    IF i > Len(bytes) \/ bytes[i] # 48 THEN 0 ELSE 1 + LeadingZeros(bytes, i + 1)

\* for _ in 0..n { micros *= 10 }
RECURSIVE TimesTen(_, _)
TimesTen(micros, n) == IF n <= 0 THEN micros ELSE TimesTen(micros * 10, n - 1)

\* The pitfall the padding rule warns of: the leading zeros are not counted as digits.
ParseMicrosNaive(micros_bytes, bld) ==
    LET pad == LeadingZeros(micros_bytes, 1)
    IN  Ok(TimesTen(ParseU32(micros_bytes), 6 - (Len(micros_bytes) - pad)))

\* The count 6 - pad_zero_cnt - (len - pad_zero_cnt) is a usize: below zero it
\* panics under overflow checks and otherwise wraps to 2^64 + 6 - len rounds of
\* the loop, which do not end in any practical time.  micros *= 10 is a u32
\* product: it overflows only from a wrapped negation (at least 2^32 - 99999),
\* where it panics under overflow checks and otherwise wraps, and the wrapped
\* product has the 32 bits of the integer product.
parse_micros(micros_bytes, bld) ==
    LET micros       == ParseU32(micros_bytes)
        pad_zero_cnt == LeadingZeros(micros_bytes, 1)
        first        == 6 - pad_zero_cnt
        count        == first - (Len(micros_bytes) - pad_zero_cnt)
    IN  CASE first < 0 \/ count < 0 -> (IF bld = "debug" THEN Panic ELSE Hang)
          [] first >= 0 /\ count > 0 /\ micros < 0 /\ bld = "debug" -> Panic
          [] OTHER -> Ok(TimesTen(micros, count))

\* if len == 10 && DATETIME_RE_YMD.is_match(bytes) { .. } else if .. else { return None }
DateTimeKind(bytes) ==
    CASE Len(bytes) = 10 /\ IsMatch(DATETIME_RE_YMD, bytes) -> "Ymd"
      [] Len(bytes) = 19 /\ IsMatch(DATETIME_RE_YMD_HMS, bytes) -> "YmdHms"
      [] 20 < Len(bytes) /\ Len(bytes) < 27 /\ IsMatch(DATETIME_RE_YMD_HMS_NS, bytes) -> "YmdHmsMs"
      [] OTHER -> "none"

\* The fields at the fixed offsets of the layout; micros is parse_micros(&bytes[20..])
DateTimeFields(bytes, kind, micros) ==
    IF micros.tag # "Ok" THEN micros
    ELSE Match(<<ParseU32(Slice(bytes, 0, 4)),
                 ParseU32(Slice(bytes, 5, 7)),
                 ParseU32(Slice(bytes, 8, 10)),
                 IF kind = "Ymd" THEN 0 ELSE ParseU32(Slice(bytes, 11, 13)),
                 IF kind = "Ymd" THEN 0 ELSE ParseU32(Slice(bytes, 14, 16)),
                 IF kind = "Ymd" THEN 0 ELSE ParseU32(Slice(bytes, 17, 19)),
                 micros.ir>>)

DateTimeOfKind(bytes, kind, bld) ==
    CASE kind = "none"     -> NoMatch
      [] kind = "YmdHmsMs" -> DateTimeFields(bytes, kind, parse_micros(Slice(bytes, 20, Len(bytes)), bld))
      [] OTHER             -> DateTimeFields(bytes, kind, Ok(0))

\* Returns (year, month, day, hour, minute, second, micros)
parse_mysql_datetime_string(bytes, bld) == DateTimeOfKind(bytes, DateTimeKind(bytes), bld)

\* A variant that knows the 2-digit hour only.
TimeKindTwoDigit(bytes) ==
    CASE Len(bytes) = 8 /\ IsMatch(TIME_RE_HH_MM_SS, bytes) -> "HhMmSs"
      [] IsMatch(TIME_RE_HH_MM_SS_MS, bytes) -> "HhMmSsMs"
      [] OTHER -> "none"

\* if len == 8 && TIME_RE_HH_MM_SS.is_match(bytes) { .. } else if .. else { return None };
\* the two fractional layouts are matched whatever the length
TimeKind(bytes) ==
    CASE Len(bytes) = 8 /\ IsMatch(TIME_RE_HH_MM_SS, bytes) -> "HhMmSs"
      [] Len(bytes) = 9 /\ IsMatch(TIME_RE_HHH_MM_SS, bytes) -> "HhhMmSs"
      [] IsMatch(TIME_RE_HH_MM_SS_MS, bytes) -> "HhMmSsMs"
      [] IsMatch(TIME_RE_HHH_MM_SS_MS, bytes) -> "HhhMmSsMs"
      [] OTHER -> "none"

\* The fields at the fixed offsets of the layout, wide = 1 for a 3-digit hour
TimeFields(is_neg, bytes, wide, micros) ==
    IF micros.tag # "Ok" THEN micros
    ELSE Match(<<is_neg,
                 ParseU32(Slice(bytes, 0, 2 + wide)),
                 ParseU32(Slice(bytes, 3 + wide, 5 + wide)),
                 ParseU32(Slice(bytes, 6 + wide, 8 + wide)),
                 micros.ir>>)

TimeOfKind(is_neg, bytes, kind, bld) ==
    CASE kind = "none"      -> NoMatch
      [] kind = "HhMmSs"    -> TimeFields(is_neg, bytes, 0, Ok(0))
      [] kind = "HhhMmSs"   -> TimeFields(is_neg, bytes, 1, Ok(0))
      [] kind = "HhMmSsMs"  -> TimeFields(is_neg, bytes, 0, parse_micros(Slice(bytes, 9, Len(bytes)), bld))
      [] kind = "HhhMmSsMs" -> TimeFields(is_neg, bytes, 1, parse_micros(Slice(bytes, 10, Len(bytes)), bld))

\* The input with its leading '-' stripped
StripSign(bytes) == IF bytes[1] = Byte("-") THEN Tail(bytes) ELSE bytes

\* Returns (is_neg, hours, minutes, seconds, microseconds)
parse_mysql_time_string(bytes, bld) ==
    IF Len(bytes) < 8 THEN NoMatch
    ELSE TimeOfKind(bytes[1] = Byte("-"), StripSign(bytes), TimeKind(StripSign(bytes)), bld)

(***************************************************************************)
(* chrono's checked constructors (external crate; modelled at the places   *)
(* convert.rs calls them).                                                 *)
(***************************************************************************)
IsLeapYear(y) == (y % 4 = 0 /\ y % 100 # 0) \/ y % 400 = 0

DaysInMonth(y, m) ==
    CASE m \in {1, 3, 5, 7, 8, 10, 12} -> 31
      [] m \in {4, 6, 9, 11}           -> 30
      [] OTHER                         -> IF IsLeapYear(y) THEN 29 ELSE 28

\* chrono's MIN_YEAR and MAX_YEAR: (i32::MIN >> 13) + 1 and (i32::MAX >> 13) - 1
ChronoYears == (0 - 262143)..262142

\* NaiveDate::from_ymd_opt(year: i32, month: u32, day: u32); a month or day of
\* 2^31 or more (written as a negative integer) is out of range like any other
from_ymd_opt(y, m, d) ==
    IF y \in ChronoYears /\ m \in 1..12 /\ d \in 1..DaysInMonth(y, m)
    THEN Some([year |-> y, month |-> m, day |-> d])
    ELSE None

\* NaiveTime::from_hms_micro_opt: micro.checked_mul(1000), then
\* from_hms_nano_opt: hour < 24, min < 60, sec < 60, nano < 2_000_000_000, and
\* nano >= 1_000_000_000 (a leap second) only with sec = 59; all four are u32
from_hms_micro_opt(h, m, s, u) ==
    IF h \in 0..23 /\ m \in 0..59 /\ s \in 0..59 /\ u \in 0..1999999 /\ (u >= 1000000 => s = 59)
    THEN Some([hour |-> h, minute |-> m, second |-> s, nano |-> u * 1000])
    ELSE None

(***************************************************************************)
(* Calendar targets.                                                       *)
(***************************************************************************)
\* A slip that reports a calendar-invalid source as FromValueError(Value::NULL).
DateTimeIrDropsValue(date, time, value) ==
    IF date # None /\ time # None
    THEN Ok(ParseIr(value, [date |-> date[1], time |-> time[1]]))
    ELSE Err(ValueNULL)

\* The tail of ConvIr<NaiveDateTime>::new: both parts valid, or the value back
DateTimeIr(date, time, value) ==
    IF date # None /\ time # None
    THEN Ok(ParseIr(value, [date |-> date[1], time |-> time[1]]))
    ELSE Err(value)

\* if let Some((y, m, d, h, i, s, u)) = parse_mysql_datetime_string(&*bytes) { .. }
DateTimeFromText(p, bytes) ==
    CASE p.tag = "Some" ->
            DateTimeIr(from_ymd_opt(p.fields[1], p.fields[2], p.fields[3]),
                       from_hms_micro_opt(p.fields[4], p.fields[5], p.fields[6], p.fields[7]),
                       ValueBytes(bytes))
      [] p.tag = "None" -> Err(ValueBytes(bytes))
      [] OTHER -> p

NewNaiveDateTime(v, bld) ==
    CASE v.tag = "Date" ->
            DateTimeIr(from_ymd_opt(v.year, v.month, v.day),
                       from_hms_micro_opt(v.hour, v.minute, v.second, v.micros),
                       ValueDate(v.year, v.month, v.day, v.hour, v.minute, v.second, v.micros))
      [] v.tag = "Bytes" -> DateTimeFromText(parse_mysql_datetime_string(v.bytes, bld), v.bytes)
      [] OTHER -> Err(v)

\* The tail of the date-only and time-only conversions: the part valid, or the value back
PartIr(part, value) == IF part # None THEN Ok(ParseIr(value, part[1])) ELSE Err(value)

\* The date-only target parses a datetime text and discards the time fields
DateFromText(p, bytes) ==
    CASE p.tag = "Some" ->
            PartIr(from_ymd_opt(p.fields[1], p.fields[2], p.fields[3]), ValueBytes(bytes))
      [] p.tag = "None" -> Err(ValueBytes(bytes))
      [] OTHER -> p

NewNaiveDate(v, bld) ==
    CASE v.tag = "Date" ->
            PartIr(from_ymd_opt(v.year, v.month, v.day),
                   ValueDate(v.year, v.month, v.day, v.hour, v.minute, v.second, v.micros))
      [] v.tag = "Bytes" -> DateFromText(parse_mysql_datetime_string(v.bytes, bld), v.bytes)
      [] OTHER -> Err(v)

\* if let Some((false, h, m, s, u)) = parse_mysql_time_string(&*bytes) { .. }
TimeFromText(p, bytes) ==
    CASE p.tag = "Some" /\ ~p.fields[1] ->
            PartIr(from_hms_micro_opt(p.fields[2], p.fields[3], p.fields[4], p.fields[5]),
                   ValueBytes(bytes))
      [] p.tag \in {"Some", "None"} -> Err(ValueBytes(bytes))
      [] OTHER -> p

NewNaiveTime(v, bld) ==
    CASE v.tag = "Time" /\ ~v.neg /\ v.days = 0 ->
            PartIr(from_hms_micro_opt(v.hours, v.minutes, v.seconds, v.micros),
                   ValueTime(FALSE, 0, v.hours, v.minutes, v.seconds, v.micros))
      [] v.tag = "Bytes" -> TimeFromText(parse_mysql_time_string(v.bytes, bld), v.bytes)
      [] OTHER -> Err(v)

(***************************************************************************)
(* Duration targets.                                                       *)
(***************************************************************************)
\* x * k for a small factor k (k <= 1000 keeps every limb product in range)
NumMulSmall(x, k) == Norm(<<x[1] * k, x[2] * k, x[3] * k, x[4] * k>>)

\* A Num below 2^31 as a plain integer
ToInt(x) == x[3] * Limb + x[4]

U32Max == TypeMax("u32")
Billion == NumOf(1000000000)

\* seconds + minutes * 60 + hours * 60 * 60 + days * 60 * 60 * 24, in u64
SecsOf(days, hours, minutes, seconds) ==
    NumAdd(NumOf(seconds + minutes * 60 + hours * 3600),
           NumMulSmall(NumMulSmall(NumOf(days), 864), 100))

\* std::time::Duration::new(secs, nanos): the q whole seconds of nanos carry into secs
DurationCarry(secs, nanos, q) ==
    [secs  |-> NumAdd(secs, NumOf(q)),
     nanos |-> ToInt(NumSub(nanos, NumMulSmall(Billion, q)))]

DurationNew(secs, nanos) ==
    DurationCarry(secs, nanos, Cardinality({k \in 1..4 : NumLe(NumMulSmall(Billion, k), nanos)}))

\* x * 1000 in u32: above u32::MAX it panics under overflow checks and wraps otherwise
CheckedU32(exact, bld) ==
    IF NumLe(exact, U32Max) THEN Ok(exact)
    ELSE IF bld = "debug" THEN Panic
    ELSE Ok(Wrap(exact, 32, FALSE))

MulU32By1000(microseconds, bld) == CheckedU32(NumMulSmall(NumOf(microseconds), 1000), bld)

\* Ok(ParseIr { value, output: Duration::new(secs, nanos) })
DurationIr(value, secs, nanos) ==
    IF nanos.tag # "Ok" THEN nanos ELSE Ok(ParseIr(value, DurationNew(secs, nanos.ir)))

\* match parse_mysql_time_string(&*val_bytes) { Some((false, ..)) => .., _ => return Err(..) }
DurationFromText(p, bytes, bld) ==
    CASE p.tag = "Some" /\ ~p.fields[1] ->
            DurationIr(ValueBytes(bytes),
                       SecsOf(0, p.fields[2], p.fields[3], p.fields[4]),
                       MulU32By1000(p.fields[5], bld))
      [] p.tag \in {"Some", "None"} -> Err(ValueBytes(bytes))
      [] OTHER -> p

\* A variant that ignores the sign flag of a Time value.
NewDurationAbs(v, bld) ==
    CASE v.tag = "Time" ->
            DurationIr(ValueTime(v.neg, v.days, v.hours, v.minutes, v.seconds, v.micros),
                       SecsOf(v.days, v.hours, v.minutes, v.seconds),
                       MulU32By1000(v.micros, bld))
      [] v.tag = "Bytes" -> DurationFromText(parse_mysql_time_string(v.bytes, bld), v.bytes, bld)
      [] OTHER -> Err(v)

\* std::time::Duration (unsigned only)
NewDuration(v, bld) ==
    CASE v.tag = "Time" /\ ~v.neg ->
            DurationIr(ValueTime(FALSE, v.days, v.hours, v.minutes, v.seconds, v.micros),
                       SecsOf(v.days, v.hours, v.minutes, v.seconds),
                       MulU32By1000(v.micros, bld))
      [] v.tag = "Bytes" -> DurationFromText(parse_mysql_time_string(v.bytes, bld), v.bytes, bld)
      [] OTHER -> Err(v)

\* time::Duration (signed): whole seconds and 0 <= nanos < 10^9, as the crate keeps it.
\* days + hours + minutes + seconds + microseconds:
SignedDurationOf(days, hours, minutes, seconds, microseconds) ==
    [secs  |-> NumAdd(SecsOf(days, hours, minutes, seconds), NumOf(microseconds \div 1000000)),
     nanos |-> (microseconds % 1000000) * 1000]

\* impl Neg for time::Duration
SignedDurationNeg(d) ==
    IF d.nanos = 0 THEN [secs |-> NumNeg(d.secs), nanos |-> 0]
    ELSE [secs |-> NumSub(NumNeg(d.secs), NumOf(1)), nanos |-> 1000000000 - d.nanos]

\* if is_neg { -duration } else { duration }
Signed(is_neg, duration) == IF is_neg THEN SignedDurationNeg(duration) ELSE duration

SignedDurationFromText(p, bytes) ==
    CASE p.tag = "Some" ->
            Ok(ParseIr(ValueBytes(bytes),
                       Signed(p.fields[1],
                              SignedDurationOf(0, p.fields[2], p.fields[3], p.fields[4], p.fields[5]))))
      [] p.tag = "None" -> Err(ValueBytes(bytes))
      [] OTHER -> p

NewTimeDuration(v, bld) ==
    CASE v.tag = "Time" ->
            Ok(ParseIr(ValueTime(v.neg, v.days, v.hours, v.minutes, v.seconds, v.micros),
                       Signed(v.neg, SignedDurationOf(v.days, v.hours, v.minutes, v.seconds, v.micros))))
      [] v.tag = "Bytes" -> SignedDurationFromText(parse_mysql_time_string(v.bytes, bld), v.bytes)
      [] OTHER -> Err(v)

(***************************************************************************)
(* Target types and the ConvIr protocol.  A target is a base type under    *)
(* `opt` layers of Option.                                                 *)
(***************************************************************************)
BaseTypes ==
    IntTypes \cup {"f32", "f64", "bool", "String", "Vec<u8>", "Uuid", "Value",
                   "NaiveDateTime", "NaiveDate", "NaiveTime", "Duration", "time::Duration"}

\* How deep the Option nesting of a target goes.
MaxOptDepth == 1

Targets == [base : BaseTypes, opt : 0..MaxOptDepth]

Plain(b) == [base |-> b, opt |-> 0]
Inner(T) == [base |-> T.base, opt |-> T.opt - 1]

\* <T::Intermediate as ConvIr<T>>::new for a base type
NewBase(b, v, bld) ==
    CASE b = "i64"            -> NewI64(v)
      [] b = "u64"            -> NewU64(v)
      [] b \in IntTypes \ {"i64", "u64"} -> NewNum(b, v)
      [] b = "f32"            -> NewF32(v)
      [] b = "f64"            -> NewF64(v)
      [] b = "bool"           -> NewBool(v)
      [] b = "String"         -> NewString(v)
      [] b = "Vec<u8>"        -> NewBytes(v)
      [] b = "Uuid"           -> NewUuid(v)
      [] b = "Value"          -> NewValue(v)
      [] b = "NaiveDateTime"  -> NewNaiveDateTime(v, bld)
      [] b = "NaiveDate"      -> NewNaiveDate(v, bld)
      [] b = "NaiveTime"      -> NewNaiveTime(v, bld)
      [] b = "Duration"       -> NewDuration(v, bld)
      [] b = "time::Duration" -> NewTimeDuration(v, bld)

\* A slip that leaves both fields of the NULL intermediate empty.
OptionIrNewEmpty(v, inner) ==
    IF v.tag = "NULL" THEN Ok([kind |-> "OptionIr", value |-> None, ir |-> None])
    ELSE IF inner.tag = "Ok"
         THEN Ok([kind |-> "OptionIr", value |-> None, ir |-> Some(inner.ir)])
         ELSE inner

\* ConvIr<Option<T>> for OptionIr<Ir>::new; inner is T::get_intermediate(v)
OptionIrNew(v, inner) ==
    IF v.tag = "NULL" THEN Ok([kind |-> "OptionIr", value |-> Some(ValueNULL), ir |-> None])
    ELSE IF inner.tag = "Ok"
         THEN Ok([kind |-> "OptionIr", value |-> None, ir |-> Some(inner.ir)])
         ELSE inner

RECURSIVE New(_, _, _)
New(T, v, bld) ==
    IF T.opt > 0 THEN OptionIrNew(v, New(Inner(T), v, bld))
    ELSE NewBase(T.base, v, bld)

\* commit of a base type's intermediate
CommitBase(b, ir) ==
    CASE b = "Value"   -> ir
      [] b = "String"  -> [string |-> ir.bytes]
      [] b = "Vec<u8>" -> ir.bytes
      [] b = "Uuid"    -> ir.val
      [] OTHER         -> ir.output

RECURSIVE Commit(_, _)
Commit(T, ir) ==
    IF T.opt > 0
    THEN (IF ir.ir # None THEN Some(Commit(Inner(T), ir.ir[1])) ELSE None)
    ELSE CommitBase(T.base, ir)

\* rollback of a base type's intermediate
RollbackBase(b, ir) ==
    CASE b = "Value"                       -> ir
      [] b \in {"String", "Vec<u8>", "Uuid"} -> ValueBytes(ir.bytes)
      [] OTHER                             -> ir.value

\* OptionIr::rollback ends in unreachable!() when both fields are empty
RECURSIVE Rollback(_, _)
Rollback(T, ir) ==
    IF T.opt > 0
    THEN (IF ir.value # None THEN ir.value[1]
          ELSE IF ir.ir # None THEN Rollback(Inner(T), ir.ir[1])
          ELSE Panic)
    ELSE RollbackBase(T.base, ir)

\* Result<T, FromValueError> of from_value_opt
Converted(x) == [tag |-> "Ok", val |-> x]

\* let ir = Self::Intermediate::new(v)?; Ok(ir.commit())
CommitOrErr(T, ir) == IF ir.tag = "Ok" THEN Converted(Commit(T, ir.ir)) ELSE ir

\* FromValue::from_value_opt (Value overrides it with Ok(v))
FromValueOpt(T, v, bld) ==
    IF T = Plain("Value") THEN Converted(v) ELSE CommitOrErr(T, New(T, v, bld))

(***************************************************************************)
(* Inputs.                                                                 *)
(***************************************************************************)
\* format!("{:0w$}", n)
Dec(n, w) == [i \in 1..w |-> 48 + ((n \div (10 ^ (w - i))) % 10)]

\* format!("{:04}-{:02}-{:02}", y, m, d)
FormatDate(y, m, d) == Dec(y, 4) \o Str(<<"-">>) \o Dec(m, 2) \o Str(<<"-">>) \o Dec(d, 2)

\* format!("{:02}:{:02}:{:02}", h, m, s) (a wider h for the 3-digit hour)
FormatHms(h, hw, m, s) == Dec(h, hw) \o Str(<<":">>) \o Dec(m, 2) \o Str(<<":">>) \o Dec(s, 2)

\* format!("{:04}-{:02}-{:02} {:02}:{:02}:{:02}", y, m, d, h, i, s)
FormatDatetime(y, m, d, h, i, s) == FormatDate(y, m, d) \o Str(<<" ">>) \o FormatHms(h, 2, i, s)

\* ".f": a dot and format!("{:06}", us) cut or zero-extended to k digits
Frac(us, k) == Str(<<".">>) \o SubSeq(Dec(us, 6) \o Dec(0, k), 1, k)

\* k ARABIC-INDIC digits d (U+0660 + d), two bytes each
RECURSIVE ArabicDigits(_, _)
ArabicDigits(d, k) == IF k = 0 THEN <<>> ELSE <<217, 160 + d>> \o ArabicDigits(d, k - 1)

\* One DEVANAGARI digit d (U+0966 + d), three bytes
DevanagariDigit(d) == <<224, 165, 166 + d>>

\* FULLWIDTH DIGIT d (U+FF10 + d), three bytes, and MATHEMATICAL BOLD DIGIT d
\* (U+1D7CE + d), four bytes
FullwidthDigit(d) == <<239, 188, 144 + d>>
MathBoldDigit(d) == <<240, 157, 159, 142 + d>>

\* Byte sequences that look like UTF-8 and are not: overlong encodings of
\* '0', U+0000 and U+07FF, the surrogates U+D800 and U+DFFF, and U+110000
IllFormed ==
    {<<192, 176>>, <<224, 128, 128>>, <<224, 159, 191>>, <<240, 128, 128, 128>>,
     <<237, 160, 128>>, <<237, 191, 191>>, <<244, 144, 128, 128>>, <<217>>, <<128>>}

\* Well-formed UTF-8 at the edges of each width
WellFormed ==
    {<<194, 128>>, <<223, 191>>, <<224, 160, 128>>, <<237, 159, 191>>, <<238, 128, 128>>,
     <<240, 144, 128, 128>>, <<244, 143, 191, 191>>, FullwidthDigit(0), MathBoldDigit(9)}

\* The integers around the edges of every integer width
EdgeNums ==
    {NumOf(n) : n \in {0 - 1, 0, 1, 2}}
    \cup {NumAdd(Pow2(k), NumOf(d)) : k \in {7, 8, 15, 16, 31, 32, 63, 64}, d \in {0 - 1, 0}}
    \cup {NumAdd(NumNeg(Pow2(k)), NumOf(d)) : k \in {7, 15, 31, 63}, d \in {0 - 1, 0}}

IntValues == {ValueInt(x) : x \in {n \in EdgeNums : NumLe(I64Min, n) /\ NumLe(n, I64Max)}}
UIntValues == {ValueUInt(x) : x \in {n \in EdgeNums : NumLe(NumOf(0), n) /\ NumLe(n, U64Max)}}

NumberTexts ==
    {<<>>, Str(<<"0">>), Str(<<"1">>), Str(<<"2">>), Str(<<"0", "1">>), Str(<<"-", "3">>),
     Str(<<"a", "b", "c">>), Str(<<"t", "r", "u", "e">>), Str(<<"1", "a">>),
     Dec(127, 3), Dec(128, 3), Dec(300, 3), Str(<<"-">>) \o Dec(128, 3), Str(<<"-">>) \o Dec(129, 3),
     Dec(70000, 5), Str(<<"1", ".", "5">>),
     \* i64::MAX, u64::MAX, u64::MAX + 1 and its negation
     Dec(922, 3) \o Dec(33720368, 8) \o Dec(54775807, 8),
     Dec(1844, 4) \o Dec(67440737, 8) \o Dec(9551615, 8),
     Dec(1844, 4) \o Dec(67440737, 8) \o Dec(9551616, 8),
     Str(<<"-">>) \o Dec(1844, 4) \o Dec(67440737, 8) \o Dec(9551616, 8),
     \* not UTF-8; a non-ASCII digit; sixteen bytes
     <<255>>, ArabicDigits(1, 1), [i \in 1..16 |-> i]}

\* "2024-" mm "-19 10:20:30.5" with the month written mm
ShiftedDatetime(mm) ==
    Dec(2024, 4) \o Str(<<"-">>) \o mm \o Str(<<"-">>) \o Dec(19, 2) \o Str(<<" ">>)
    \o FormatHms(10, 2, 20, 30) \o Frac(500000, 1)

\* A two-byte digit in the month puts "-1" at the day's offset, two three-byte
\* digits put it at the hour's
ShiftedDatetimes ==
    {ShiftedDatetime(Dec(1, 1) \o ArabicDigits(0, 1)),
     ShiftedDatetime(FullwidthDigit(1) \o FullwidthDigit(1))}

DateTexts ==
    ShiftedDatetimes \cup
    {FormatDate(2024, 2, 29), FormatDate(2023, 2, 29), FormatDate(999, 1, 1),
     FormatDate(2024, 13, 1), FormatDate(2024, 0, 10), FormatDate(2024, 4, 31),
     FormatDatetime(2024, 2, 29, 10, 20, 30), FormatDatetime(2024, 2, 29, 24, 0, 0),
     FormatDatetime(2024, 2, 30, 10, 20, 30), FormatDatetime(2024, 2, 29, 10, 60, 30),
     FormatDatetime(2024, 2, 29, 10, 20, 30) \o Frac(500000, 1),
     FormatDatetime(2024, 2, 29, 10, 20, 30) \o Frac(50000, 2),
     FormatDatetime(2024, 2, 29, 10, 20, 30) \o Str(<<".">>),
     FormatDatetime(2024, 2, 29, 10, 20, 30) \o Str(<<".">>) \o ArabicDigits(1, 1)}

TimeTexts ==
    {FormatHms(12, 2, 34, 56), Str(<<"-">>) \o FormatHms(838, 3, 59, 59),
     FormatHms(838, 3, 59, 59), FormatHms(25, 2, 0, 0), FormatHms(23, 2, 59, 59),
     FormatHms(0, 2, 0, 60), Str(<<"-">>) \o FormatHms(0, 2, 0, 1),
     Str(<<"-">>) \o FormatHms(1, 1, 0, 0),
     FormatHms(12, 2, 34, 56) \o Frac(500000, 1),
     Str(<<"-">>) \o FormatHms(12, 2, 34, 56) \o Frac(1, 6),
     FormatHms(12, 2, 34, 56) \o Str(<<".">>) \o ArabicDigits(0, 4)}

BytesValues ==
    {ValueBytes(b) : b \in NumberTexts \cup DateTexts \cup TimeTexts \cup IllFormed \cup WellFormed}

DateValues ==
    {ValueDate(2024, 2, 29, 10, 20, 30, 500000), ValueDate(2023, 2, 29, 0, 0, 0, 0),
     ValueDate(2024, 13, 1, 0, 0, 0, 0), ValueDate(0, 0, 0, 0, 0, 0, 0),
     ValueDate(999, 1, 1, 0, 0, 0, 0), ValueDate(2024, 2, 29, 24, 0, 0, 0),
     ValueDate(2024, 4, 31, 0, 0, 0, 0), ValueDate(2024, 1, 0, 0, 0, 0, 0),
     ValueDate(2024, 2, 29, 23, 59, 59, 1999999), ValueDate(2024, 2, 29, 23, 59, 59, 2000000),
     ValueDate(1900, 2, 29, 0, 0, 0, 0), ValueDate(2000, 2, 29, 0, 60, 0, 0),
     ValueDate(2000, 2, 29, 0, 0, 60, 0), ValueDate(2024, 2, 29, 10, 20, 30, 1500000),
     ValueDate(2024, 2, 29, 23, 59, 59, 1000000)}

TimeValues ==
    {ValueTime(FALSE, 0, 12, 34, 56, 0), ValueTime(TRUE, 0, 12, 34, 56, 0),
     ValueTime(FALSE, 1, 0, 0, 0, 0), ValueTime(FALSE, 34, 22, 59, 59, 999999),
     ValueTime(TRUE, 34, 22, 59, 59, 1), ValueTime(FALSE, 0, 24, 0, 0, 0),
     ValueTime(FALSE, 0, 23, 59, 60, 0), ValueTime(FALSE, 0, 0, 0, 0, 4294967),
     ValueTime(FALSE, 0, 0, 0, 0, 4294968), ValueTime(FALSE, 2147483647, 255, 255, 255, 2147483647)}

Values ==
    {ValueNULL} \cup IntValues \cup UIntValues \cup {ValueFloat(f) : f \in FloatValues}
    \cup BytesValues \cup DateValues \cup TimeValues

Builds == {"debug", "release"}

(***************************************************************************)
(* Conversions: ConvIr::new, then commit or rollback; from_value_opt.      *)
(***************************************************************************)
ConvIdle ==
    /\ target = None /\ src = None /\ res = None /\ out = None

EncodeIdle ==
    /\ host = None /\ enc = None /\ dec = None /\ reenc = None

ParseIdle ==
    /\ text = None /\ parsed = None

\* No Row has been built, no call made
NoRow == [alive |-> FALSE]
NoCall == [tag |-> "NoCall"]

RowIdle ==
    /\ row = NoRow /\ arg = NoCall /\ ret = NoCall

InitConv ==
    /\ pc = "idle"
    /\ build \in Builds
    /\ ConvIdle /\ EncodeIdle /\ ParseIdle /\ RowIdle

ConvNew ==
    /\ pc = "idle"
    /\ \E T \in Targets, v \in Values :
        /\ target' = T
        /\ src' = v
        /\ res' = New(T, v, build)
    /\ pc' = "new"
    /\ UNCHANGED <<build, out, host, enc, dec, reenc, text, parsed, row, arg, ret>>

ConvCommit ==
    /\ pc = "new"
    /\ res.tag = "Ok"
    /\ out' = Commit(target, res.ir)
    /\ pc' = "commit"
    /\ UNCHANGED <<build, target, src, res, host, enc, dec, reenc, text, parsed, row, arg, ret>>

ConvRollback ==
    /\ pc = "new"
    /\ res.tag = "Ok"
    /\ out' = Rollback(target, res.ir)
    /\ pc' = "rollback"
    /\ UNCHANGED <<build, target, src, res, host, enc, dec, reenc, text, parsed, row, arg, ret>>

ConvFromValueOpt ==
    /\ pc = "idle"
    /\ \E T \in Targets, v \in Values :
        /\ target' = T
        /\ src' = v
        /\ out' = FromValueOpt(T, v, build)
    /\ pc' = "from_value_opt"
    /\ UNCHANGED <<build, res, host, enc, dec, reenc, text, parsed, row, arg, ret>>

NextConv == ConvNew \/ ConvCommit \/ ConvRollback \/ ConvFromValueOpt

SpecConv == InitConv /\ [][NextConv]_vars

(***************************************************************************)
(* Encoding host integers: From<$t> for Value, then decoding and encoding  *)
(* again.                                                                  *)
(***************************************************************************)
\* A variant that treats u64 as From<usize> does: Int up to i64::MAX.
IntoValueU64Split(t, x) ==
    CASE t = "i64" -> ValueInt(x)
      [] t \in {"u64", "usize"} ->
            IF NumLe(AsU64(x), AsU64(I64Max)) THEN ValueInt(AsI64(x)) ELSE ValueUInt(AsU64(x))
      [] OTHER -> ValueInt(AsI64(x))

\* A variant without From<usize>: usize goes through the ($t) arm, x as i64.
IntoValueUsizeAsInt(t, x) ==
    CASE t = "u64" -> ValueUInt(x)
      [] t = "i64" -> ValueInt(x)
      [] OTHER     -> ValueInt(AsI64(x))

\* into_value_impl!(u64), (i64), ($t) and From<usize> for Value
IntoValue(t, x) ==
    CASE t = "u64"   -> ValueUInt(x)
      [] t = "i64"   -> ValueInt(x)
      [] t = "usize" -> IF NumLe(AsU64(x), AsU64(I64Max))
                        THEN ValueInt(AsI64(x))
                        ELSE ValueUInt(AsU64(x))
      [] OTHER       -> ValueInt(AsI64(x))

\* The host values of type t among the edges of the integer widths
HostInts(t) == {x \in EdgeNums : NumLe(TypeMin(t), x) /\ NumLe(x, TypeMax(t))}

InitEncode == InitConv

EncodeInt ==
    /\ pc = "idle"
    /\ \E t \in IntTypes : \E x \in HostInts(t) :
        /\ host' = [type |-> t, val |-> x]
        /\ enc' = IntoValue(t, x)
    /\ pc' = "encoded"
    /\ UNCHANGED <<build, target, src, res, out, dec, reenc, text, parsed, row, arg, ret>>

DecodeInt ==
    /\ pc = "encoded"
    /\ dec' = FromValueOpt(Plain(host.type), enc, build)
    /\ pc' = "decoded"
    /\ UNCHANGED <<build, target, src, res, out, host, enc, reenc, text, parsed, row, arg, ret>>

ReEncode ==
    /\ pc = "decoded"
    /\ dec.tag = "Ok"
    /\ reenc' = IntoValue(host.type, dec.val)
    /\ pc' = "reencoded"
    /\ UNCHANGED <<build, target, src, res, out, host, enc, dec, text, parsed, row, arg, ret>>

NextEncode == EncodeInt \/ DecodeInt \/ ReEncode

SpecEncode == InitEncode /\ [][NextEncode]_vars

(***************************************************************************)
(* The temporal text parsers on well-formed texts and their mutations.     *)
(***************************************************************************)
\* The longest fraction written, one digit more than the patterns accept
MaxFracDigits == 7

Prefixes(b) == {SubSeq(b, 1, n) : n \in 0..Len(b)}

\* b with the byte at position p replaced by the bytes r
Subst(b, p, r) == SubSeq(b, 1, p - 1) \o r \o SubSeq(b, p + 1, Len(b))

AsciiSubsts == {Str(<<"a">>), Str(<<"-">>), Str(<<":">>), Str(<<"9">>), Str(<<" ">>)}
\* Decimal digits of 2, 3 and 4 bytes, an overlong '0' and a surrogate
DigitSubsts ==
    {ArabicDigits(3, 1), DevanagariDigit(4), FullwidthDigit(5), MathBoldDigit(0), <<192, 176>>,
     <<237, 160, 128>>}

Mutations(b, rs) == {Subst(b, p, r) : p \in 1..Len(b), r \in rs}

\* Datetime texts in ASCII: every prefix of a full text, with one byte replaced
AsciiDatetimeTexts ==
    UNION {Prefixes(FormatDatetime(2023, 12, 31, 23, 59, 58) \o Frac(us, MaxFracDigits))
           \cup Mutations(FormatDatetime(2024, 2, 29, 10, 20, 30) \o Frac(us, k), AsciiSubsts)
           \cup Mutations(FormatDatetime(999, 1, 1, 0, 0, 0), AsciiSubsts)
           \cup Mutations(FormatDate(2024, 2, 29), AsciiSubsts)
           : us \in {0, 1, 50000, 500000, 123456}, k \in {1, 6}}

\* Datetime texts with one digit replaced by a non-ASCII decimal digit
UnicodeDatetimeTexts ==
    ShiftedDatetimes \cup
    UNION {Mutations(b, DigitSubsts) \cup {b \o ArabicDigits(1, 1), b \o DevanagariDigit(2)}
           : b \in Prefixes(FormatDatetime(2024, 2, 9, 10, 20, 30) \o Frac(500000, MaxFracDigits))
                   \cup {FormatDatetime(2024, 11, 19, 10, 20, 30) \o Frac(500000, 1)}}

\* Time texts in ASCII, with 2- and 3-digit hours and a leading '-'
AsciiTimeTexts ==
    UNION {Prefixes(h \o Frac(us, MaxFracDigits))
           \cup Prefixes(Str(<<"-">>) \o h \o Frac(us, MaxFracDigits))
           \cup Mutations(h \o Frac(us, 3), AsciiSubsts)
           : h \in {FormatHms(12, 2, 34, 56), FormatHms(838, 3, 59, 59), FormatHms(99, 2, 0, 0),
                    FormatHms(900, 3, 0, 0), FormatHms(1, 1, 0, 0)},
             us \in {0, 1, 50000, 500000, 123456}}

\* Time texts whose fraction holds non-ASCII decimal digits
UnicodeTimeTexts ==
    UNION {Mutations(b, DigitSubsts)
           \cup {b \o ArabicDigits(0, k) : k \in 1..4}
           \cup {b \o DevanagariDigit(7), Str(<<"-">>) \o b \o ArabicDigits(2, 4)}
           : b \in Prefixes(FormatHms(12, 2, 34, 56) \o Frac(500000, 3))
                   \cup Prefixes(FormatHms(123, 3, 45, 6) \o Frac(500000, 3))}

\* Time texts "[-]H:MM:SS[.f]" over the edges of the field ranges, with minutes
\* and seconds up to 99 so that fields past 59 occur
FieldTimeTexts ==
    {sign \o FormatHms(h[1], h[2], m, sec) \o f :
        sign \in {<<>>, Str(<<"-">>)},
        h \in {<<0, 2>>, <<7, 2>>, <<99, 2>>, <<0, 3>>, <<100, 3>>, <<838, 3>>},
        m \in {0, 59, 60, 99}, sec \in {0, 59, 60},
        f \in {<<>>, Frac(500000, 1), Frac(1, 6), Frac(0, 3)}}

ParseTexts ==
    AsciiDatetimeTexts \cup UnicodeDatetimeTexts \cup AsciiTimeTexts \cup UnicodeTimeTexts
    \cup FieldTimeTexts

InitParse == InitConv

ParseDatetime ==
    /\ pc = "idle"
    /\ \E b \in ParseTexts :
        /\ text' = b
        /\ parsed' = parse_mysql_datetime_string(b, build)
    /\ pc' = "datetime"
    /\ UNCHANGED <<build, target, src, res, out, host, enc, dec, reenc, row, arg, ret>>

ParseTime ==
    /\ pc = "idle"
    /\ \E b \in ParseTexts :
        /\ text' = b
        /\ parsed' = parse_mysql_time_string(b, build)
    /\ pc' = "time"
    /\ UNCHANGED <<build, target, src, res, out, host, enc, dec, reenc, row, arg, ret>>

NextParse == ParseDatetime \/ ParseTime

SpecParse == InitParse /\ [][NextParse]_vars

(***************************************************************************)
(* Properties of the conversions (SpecConv).                               *)
(***************************************************************************)
\* C1: whenever new(v) succeeds for a target type, rollback of the intermediate
\* returns a Value equal to v, whatever the variant of v.
C1_RollbackReturnsSource == pc = "rollback" => out = src

C1_Witness ==
    /\ pc = "rollback" /\ target = Plain("bool")
    /\ src = ValueBytes(Str(<<"1">>)) /\ out = src

\* C2: when from_value_opt fails, the FromValueError carries a Value equal to
\* the source, for wrong variants, unparsable or out-of-range Bytes and
\* calendar-invalid Date/Time/Bytes alike.
C2_ErrorCarriesSource ==
    pc = "from_value_opt" /\ out.tag = "Err" => out.value = src

C2_Witness ==
    /\ pc = "from_value_opt" /\ target = Plain("NaiveDateTime")
    /\ src = ValueBytes(FormatDatetime(2024, 2, 30, 10, 20, 30))
    /\ out = Err(src)

\* C3: for every integer target W, Int(x) converts iff MIN(W) <= x <= MAX(W),
\* UInt(x) converts iff x <= MAX(W), and the result is numerically x; so an
\* unsigned target rejects every negative Int.
C3_IntegerRange ==
    pc = "from_value_opt" /\ target.opt = 0 /\ target.base \in IntTypes =>
        /\ src.tag = "Int" =>
              IF NumLe(TypeMin(target.base), src.i) /\ NumLe(src.i, TypeMax(target.base))
              THEN out = Converted(src.i) ELSE out.tag = "Err"
        /\ src.tag = "UInt" =>
              IF NumLe(src.u, TypeMax(target.base))
              THEN out = Converted(src.u) ELSE out.tag = "Err"

C3_Witness ==
    /\ pc = "from_value_opt" /\ target = Plain("usize")
    /\ src = ValueInt(I64Max) /\ out = Converted(I64Max)

\* C7: bool converts from exactly Int(0) and Bytes "0" (false) and Int(1) and
\* Bytes "1" (true); every other Value fails.
C7_BoolAcceptsFour ==
    pc = "from_value_opt" /\ target = Plain("bool") =>
        CASE src \in {ValueInt(NumOf(0)), ValueBytes(Str(<<"0">>))} -> out = Converted(FALSE)
          [] src \in {ValueInt(NumOf(1)), ValueBytes(Str(<<"1">>))} -> out = Converted(TRUE)
          [] OTHER -> out.tag = "Err"

C7_Witness ==
    /\ pc = "from_value_opt" /\ target = Plain("bool")
    /\ src = ValueUInt(NumOf(1)) /\ out.tag = "Err"

\* C8: for Option<T>, NULL gives an intermediate that commits to None and rolls
\* back to NULL; a non-NULL v succeeds exactly when T's conversion of v does,
\* then commits to Some(T's result) and rolls back to v; a failure carries v;
\* and every OptionIr built has exactly one of its two fields set, so rollback
\* never reaches unreachable!().
C8_OptionIr ==
    target # None /\ target.opt > 0 =>
        /\ pc = "new" =>
              /\ src.tag = "NULL" => res.tag = "Ok"
              /\ src.tag # "NULL" => res.tag = New(Inner(target), src, build).tag
              /\ res.tag = "Ok" => (res.ir.value = None) # (res.ir.ir = None)
              /\ res.tag = "Err" => res.value = src
        /\ pc = "commit" =>
              IF src.tag = "NULL" THEN out = None
              ELSE out = Some(FromValueOpt(Inner(target), src, build).val)
        /\ pc = "rollback" => out = src

C8_Witness ==
    /\ pc = "rollback" /\ target = [base |-> "i32", opt |-> 1]
    /\ src = ValueNULL /\ out = ValueNULL

(***************************************************************************)
(* Properties of the integer encoding (SpecEncode).                        *)
(***************************************************************************)
\* C4 as stated: an integer that fits the signed 64-bit range is encoded as
\* Int(x), whatever its type, and UInt(x) is used only above i64::MAX.
C4_IntWheneverRepresentable ==
    pc = "encoded" =>
        IF NumLe(host.val, I64Max) THEN enc = ValueInt(host.val) ELSE enc = ValueUInt(host.val)

\* C4, amended: the signed types, u8, u16, u32 and a usize up to i64::MAX are
\* encoded as Int(x); every u64, and a usize above i64::MAX, as UInt(x).
C4_IntExceptU64 ==
    pc = "encoded" =>
        IF host.type = "u64" \/ ~NumLe(host.val, I64Max)
        THEN enc = ValueUInt(host.val) ELSE enc = ValueInt(host.val)

C4_Witness ==
    /\ pc = "encoded" /\ host = [type |-> "u64", val |-> NumOf(1)]
    /\ enc = ValueUInt(NumOf(1))

\* C5: for every integer type W and every v of W, encoding v, converting the
\* Value back to W and encoding the result succeed, the decoded value is v and
\* the second encoding equals the first.
C5_EncodeDecodeRoundTrip ==
    /\ pc \in {"decoded", "reencoded"} => dec = Converted(host.val)
    /\ pc = "reencoded" => reenc = enc

C5_Witness ==
    /\ pc = "reencoded" /\ host = [type |-> "usize", val |-> U64Max]
    /\ dec = Converted(U64Max) /\ reenc = ValueUInt(U64Max)

(***************************************************************************)
(* Properties of the temporal text parsers (SpecParse).                    *)
(***************************************************************************)
IsAscii(bytes) == \A k \in 1..Len(bytes) : bytes[k] < 128

DigitsAt(bytes, ps) == \A p \in ps : IsAsciiDigit(bytes[p])

\* The number a string of ASCII digits writes
RECURSIVE DecimalValue(_)
DecimalValue(digits) ==
    IF digits = <<>> THEN 0
    ELSE DecimalValue(SubSeq(digits, 1, Len(digits) - 1)) * 10 + (digits[Len(digits)] - 48)

\* The digits of a fraction right-padded with zeros to six digits
PaddedMicros(digits) == DecimalValue(digits) * (10 ^ (6 - Len(digits)))

\* YYYY-MM-DD at the start
DateLayout(bytes) ==
    /\ Len(bytes) >= 10
    /\ DigitsAt(bytes, {1, 2, 3, 4, 6, 7, 9, 10})
    /\ bytes[5] = Byte("-") /\ bytes[8] = Byte("-")

\* " HH:MM:SS" after the date
ClockLayout(bytes) ==
    /\ Len(bytes) >= 19
    /\ bytes[11] = Byte(" ")
    /\ DigitsAt(bytes, {12, 13, 15, 16, 18, 19})
    /\ bytes[14] = Byte(":") /\ bytes[17] = Byte(":")

\* ".f" with 1 to 6 digits after the clock
FractionLayout(bytes) ==
    /\ Len(bytes) \in 21..26
    /\ bytes[20] = Byte(".")
    /\ DigitsAt(bytes, 21..Len(bytes))

IsDatetimeLayout(bytes) ==
    \/ Len(bytes) = 10 /\ DateLayout(bytes)
    \/ Len(bytes) = 19 /\ DateLayout(bytes) /\ ClockLayout(bytes)
    \/ DateLayout(bytes) /\ ClockLayout(bytes) /\ FractionLayout(bytes)

\* The decimal values at the fixed offsets of the layout
LayoutFields(bytes) ==
    <<DecimalValue(SubSeq(bytes, 1, 4)),
      DecimalValue(SubSeq(bytes, 6, 7)),
      DecimalValue(SubSeq(bytes, 9, 10)),
      IF Len(bytes) >= 19 THEN DecimalValue(SubSeq(bytes, 12, 13)) ELSE 0,
      IF Len(bytes) >= 19 THEN DecimalValue(SubSeq(bytes, 15, 16)) ELSE 0,
      IF Len(bytes) >= 19 THEN DecimalValue(SubSeq(bytes, 18, 19)) ELSE 0,
      IF Len(bytes) > 20 THEN PaddedMicros(SubSeq(bytes, 21, Len(bytes))) ELSE 0>>

\* C6: both parsers return a field tuple or no match for every byte sequence
\* and never abort, multi-byte decimal digits and a leading '-' included.
C6_ParsersNeverAbort ==
    pc \in {"datetime", "time"} => parsed.tag \in {"Some", "None"}

\* C9: parse_mysql_datetime_string matches exactly the inputs of the layouts
\* YYYY-MM-DD, YYYY-MM-DD HH:MM:SS and YYYY-MM-DD HH:MM:SS.f (1 to 6 digits),
\* and the seven fields are the decimal values at the fixed offsets, 0 for the
\* parts the layout omits.
C9_DatetimeLayouts ==
    pc = "datetime" =>
        IF IsDatetimeLayout(text) THEN parsed = Match(LayoutFields(text)) ELSE parsed = NoMatch

\* The bytes after the '.' of a text
AfterDot(bytes) ==
    SubSeq(bytes, 1 + (CHOOSE p \in 1..Len(bytes) : bytes[p] = Byte(".")), Len(bytes))

\* The microsecond field of a parser's match
MicrosField == IF pc = "datetime" THEN parsed.fields[7] ELSE parsed.fields[5]

\* C10: for a fraction of k ASCII digits, 1 <= k <= 6, the microsecond field
\* of either parser is the digits right-padded with zeros to six digits, that
\* is digits * 10^(6-k), leading zeros and all-zero fractions included.
C10_MicrosRightPadded ==
    /\ pc \in {"datetime", "time"}
    /\ IsAscii(text) /\ Byte(".") \in {text[k] : k \in 1..Len(text)}
    /\ parsed.tag # "None"
    => /\ parsed.tag = "Some"
       /\ Len(AfterDot(text)) \in 1..6
       /\ MicrosField = PaddedMicros(AfterDot(text))

C10_Witness ==
    /\ pc = "time" /\ text = FormatHms(12, 2, 34, 56) \o Frac(50000, 2)
    /\ parsed = Match(<<FALSE, 12, 34, 56, 50000>>)

\* The text behind an optional leading '-'
Unsigned(bytes) == IF bytes # <<>> /\ bytes[1] = Byte("-") THEN Tail(bytes) ELSE bytes

\* H:MM:SS[.f] in ASCII with an hour of w digits and a fraction of 1 to 6 digits
ClockShape(b, w) ==
    /\ Len(b) >= w + 6
    /\ DigitsAt(b, (1..w) \cup {w + 2, w + 3, w + 5, w + 6})
    /\ b[w + 1] = Byte(":") /\ b[w + 4] = Byte(":")
    /\ \/ Len(b) = w + 6
       \/ /\ Len(b) \in (w + 8)..(w + 13)
          /\ b[w + 7] = Byte(".")
          /\ DigitsAt(b, (w + 8)..Len(b))

\* The width of the hour of a text [-]H:MM:SS[.f], 0 when it is no such text
HourWidth(bytes) ==
    CASE ClockShape(Unsigned(bytes), 2) -> 2
      [] ClockShape(Unsigned(bytes), 3) -> 3
      [] OTHER -> 0

\* The fields a text [-]H:MM:SS[.f] with an hour of w digits writes
ClockFields(bytes, b, w) ==
    <<bytes[1] = Byte("-"),
      DecimalValue(SubSeq(b, 1, w)),
      DecimalValue(SubSeq(b, w + 2, w + 3)),
      DecimalValue(SubSeq(b, w + 5, w + 6)),
      IF Len(b) > w + 6 THEN PaddedMicros(SubSeq(b, w + 8, Len(b))) ELSE 0>>

WrittenTime(bytes) == ClockFields(bytes, Unsigned(bytes), HourWidth(bytes))

\* C11: parse_mysql_time_string returns exactly (sign, h, minute, second,
\* microseconds) for every text [-]H:MM:SS[.f] with h in 0..838 written with 2
\* or 3 digits, minute and second in 0..59 and an optional fraction of 1 to 6
\* digits (microseconds 0 without it); an input shorter than 8 bytes, or whose
\* minute or second starts with a digit above 5, gives no match.
C11_TimeTextRoundTrip ==
    pc = "time" =>
        /\ Len(text) < 8 => parsed = NoMatch
        /\ HourWidth(text) > 0 =>
              IF WrittenTime(text)[3] > 59 \/ WrittenTime(text)[4] > 59
              THEN parsed = NoMatch
              ELSE WrittenTime(text)[2] <= 838 => parsed = Match(WrittenTime(text))

C11_Witness ==
    /\ pc = "time"
    /\ text = Str(<<"-">>) \o FormatHms(838, 3, 59, 59) \o Frac(1, 6)
    /\ parsed = Match(<<TRUE, 838, 59, 59, 1>>)

(***************************************************************************)
(* Properties of the calendar and duration targets (SpecConv).             *)
(***************************************************************************)
\* A day that exists in the proleptic Gregorian calendar
RealDate(y, m, d) ==
    /\ m \in 1..12 /\ d >= 1
    /\ d <= <<31, 28, 31, 30, 31, 30, 31, 31, 30, 31, 30, 31>>[m]
       \/ (m = 2 /\ d = 29 /\ y % 4 = 0 /\ (y % 100 # 0 \/ y % 400 = 0))

\* A time of day: hour, minute, second and microsecond within their ranges
RealTime(h, i, s, u) == h \in 0..23 /\ i \in 0..59 /\ s \in 0..59 /\ u \in 0..999999

\* What the datetime target must give for the fields f of the source v
DatetimeOutcome(f, v) ==
    IF RealDate(f[1], f[2], f[3]) /\ RealTime(f[4], f[5], f[6], f[7])
    THEN Converted([date |-> [year |-> f[1], month |-> f[2], day |-> f[3]],
                    time |-> [hour |-> f[4], minute |-> f[5], second |-> f[6],
                              nano |-> f[7] * 1000]])
    ELSE Err(v)

\* The outcome for a Bytes source, from what the text parser returned
DatetimeTextOutcome(p, v) == IF p.tag = "Some" THEN DatetimeOutcome(p.fields, v) ELSE Err(v)

\* C12: conversion to NaiveDateTime succeeds exactly when the fields of the
\* source (a Date value, or Bytes matched by the datetime parser) form a real
\* calendar date and a real time of day, with the fields unchanged; any other
\* source fails with the source value and is never clamped.
C12_CalendarValidity ==
    pc = "from_value_opt" /\ target = Plain("NaiveDateTime") =>
        /\ src.tag = "Date" =>
              out = DatetimeOutcome(<<src.year, src.month, src.day, src.hour,
                                      src.minute, src.second, src.micros>>, src)
        /\ src.tag = "Bytes" =>
              out = DatetimeTextOutcome(parse_mysql_datetime_string(src.bytes, build), src)

\* A Time value with the sign flag set, or the text of a time behind a '-'
IsNegativeSource(v) ==
    \/ v.tag = "Time" /\ v.neg
    \/ /\ v.tag = "Bytes" /\ v.bytes # <<>> /\ v.bytes[1] = Byte("-")
       /\ HourWidth(v.bytes) > 0
       /\ WrittenTime(v.bytes)[3] <= 59 /\ WrittenTime(v.bytes)[4] <= 59

\* The same source without its sign
WithoutSign(v) ==
    IF v.tag = "Time" THEN ValueTime(FALSE, v.days, v.hours, v.minutes, v.seconds, v.micros)
    ELSE ValueBytes(Tail(v.bytes))

\* Two signed durations (whole seconds and 0 <= nanos < 10^9) that add up to zero
AddToZero(a, b) ==
    /\ (a.nanos + b.nanos) % 1000000000 = 0
    /\ NumAdd(NumAdd(a.secs, b.secs), NumOf((a.nanos + b.nanos) \div 1000000000)) = NumOf(0)

\* The signed duration a conversion returned
SignedOf(r) == r.val

\* C13: a negative source (a Time value with the sign flag, or Bytes whose
\* time text starts with '-') fails to convert to the unsigned Duration, with
\* the source in the error and never the absolute value, and converts to the
\* signed time::Duration as the negation of what the unsigned source gives.
C13_NegativeDurations ==
    pc = "from_value_opt" /\ IsNegativeSource(src) =>
        /\ target = Plain("Duration") => out = Err(src)
        /\ target = Plain("time::Duration") =>
              /\ out.tag = "Ok"
              /\ AddToZero(SignedOf(out),
                           SignedOf(FromValueOpt(target, WithoutSign(src), build)))

C13_Witness ==
    /\ pc = "from_value_opt" /\ target = Plain("time::Duration")
    /\ src = ValueBytes(Str(<<"-">>) \o FormatHms(838, 3, 59, 59))
    /\ out = Converted([secs |-> NumOf(0 - (838 * 3600 + 59 * 60 + 59)), nanos |-> 0])

(***************************************************************************)
(* Encoding calendar values: From<NaiveDateTime> and From<NaiveDate> for   *)
(* Value, on host values and on the results of a decoding.                 *)
(***************************************************************************)
\* A variant without the year check.
FromNaiveDateTimeAnyYear(x) ==
    ValueDate(x.date.year, x.date.month, x.date.day,
              x.time.hour, x.time.minute, x.time.second, x.time.nano \div 1000)

\* impl From<NaiveDateTime> for Value
FromNaiveDateTime(x) ==
    IF 1000 > x.date.year \/ x.date.year > 9999 THEN Panic
    ELSE ValueDate(x.date.year, x.date.month, x.date.day,
                   x.time.hour, x.time.minute, x.time.second, x.time.nano \div 1000)

\* impl From<NaiveDate> for Value
FromNaiveDate(x) ==
    IF 1000 > x.year \/ x.year > 9999 THEN Panic
    ELSE ValueDate(x.year, x.month, x.day, 0, 0, 0, 0)

\* Value::from(x) for a calendar type t
IntoCalendarValue(t, x) == IF t = "NaiveDate" THEN FromNaiveDate(x) ELSE FromNaiveDateTime(x)

CalendarTypes == {"NaiveDate", "NaiveDateTime"}

EdgeYears == {0, 999, 1000, 2024, 9999, 10000}

\* Days and times of day a calendar value can hold, around the edges of the year range
HostDates ==
    {[year |-> y, month |-> md[1], day |-> md[2]] :
        y \in EdgeYears \cup {0 - 1}, md \in {<<1, 1>>, <<2, 28>>, <<12, 31>>}}

HostTimes ==
    {[hour |-> hm[1], minute |-> hm[2], second |-> hm[2], nano |-> n] :
        hm \in {<<0, 0>>, <<23, 59>>}, n \in {0, 500000000, 1999999000}}

HostCalendar(t) ==
    IF t = "NaiveDate" THEN HostDates ELSE [date : HostDates, time : HostTimes]

\* Date values and date texts to decode, valid and invalid, around the same edges
CalendarSources ==
    {ValueDate(y, m, d, h, 0, 0, 0) :
        y \in EdgeYears, m \in {1, 2, 13}, d \in {1, 29, 30}, h \in {0, 23, 24}}
    \cup {ValueBytes(FormatDate(y, m, d)) :
            y \in EdgeYears \ {10000}, m \in {1, 2, 13}, d \in {1, 29, 30}}
    \cup {ValueBytes(FormatDatetime(y, 1, 1, h, 0, 0)) :
            y \in EdgeYears \ {10000}, h \in {0, 23, 24}}

InitCalendar == InitConv

EncodeCalendar ==
    /\ pc = "idle"
    /\ \E t \in CalendarTypes : \E x \in HostCalendar(t) :
        /\ host' = [type |-> t, val |-> x]
        /\ enc' = IntoCalendarValue(t, x)
    /\ pc' = "calendar_encoded"
    /\ UNCHANGED <<build, target, src, res, out, dec, reenc, text, parsed, row, arg, ret>>

DecodeCalendar ==
    /\ pc = "idle"
    /\ \E t \in CalendarTypes, v \in CalendarSources :
        /\ target' = Plain(t)
        /\ src' = v
        /\ dec' = FromValueOpt(Plain(t), v, build)
    /\ pc' = "calendar_decoded"
    /\ UNCHANGED <<build, res, out, host, enc, reenc, text, parsed, row, arg, ret>>

ReEncodeCalendar ==
    /\ pc = "calendar_decoded"
    /\ dec.tag = "Ok"
    /\ reenc' = IntoCalendarValue(target.base, dec.val)
    /\ pc' = "calendar_reencoded"
    /\ UNCHANGED <<build, target, src, res, out, host, enc, dec, text, parsed, row, arg, ret>>

NextCalendar == EncodeCalendar \/ DecodeCalendar \/ ReEncodeCalendar

SpecCalendar == InitCalendar /\ [][NextCalendar]_vars

\* The year of a calendar value of type t
YearOf(t, x) == IF t = "NaiveDate" THEN x.year ELSE x.date.year

\* The Date value with the fields of a calendar value of type t
DateValueOf(t, x) ==
    IF t = "NaiveDate" THEN ValueDate(x.year, x.month, x.day, 0, 0, 0, 0)
    ELSE ValueDate(x.date.year, x.date.month, x.date.day,
                   x.time.hour, x.time.minute, x.time.second, x.time.nano \div 1000)

\* What encoding a calendar value of type t must give
EncodingOutcome(t, x) ==
    IF YearOf(t, x) < 1000 \/ YearOf(t, x) > 9999 THEN Panic ELSE DateValueOf(t, x)

\* The seven fields of a Date value or of a date text
SourceFields(v) ==
    IF v.tag = "Date"
    THEN <<v.year, v.month, v.day, v.hour, v.minute, v.second, v.micros>>
    ELSE LayoutFields(v.bytes)

\* A source whose fields form a real date (and, for a datetime, a real time)
IsRealSource(t, f) ==
    /\ RealDate(f[1], f[2], f[3])
    /\ t = "NaiveDate" \/ RealTime(f[4], f[5], f[6], f[7])

\* C14: encoding a NaiveDate or NaiveDateTime aborts exactly when its year is
\* below 1000 or above 9999 and otherwise gives the Date value with the same
\* fields; decoding has no year restriction, so a Date value or text with a
\* real date of any year decodes, and a decoded value with a year outside
\* 1000..9999 aborts when encoded again.
C14_YearRangeOnEncodeOnly ==
    /\ pc = "calendar_encoded" => enc = EncodingOutcome(host.type, host.val)
    /\ pc \in {"calendar_decoded", "calendar_reencoded"}
       /\ IsRealSource(target.base, SourceFields(src))
       => dec.tag = "Ok" /\ YearOf(target.base, dec.val) = SourceFields(src)[1]
    /\ pc = "calendar_reencoded" => reenc = EncodingOutcome(target.base, dec.val)

C14_Witness ==
    /\ pc = "calendar_reencoded" /\ target = Plain("NaiveDate")
    /\ src = ValueBytes(FormatDate(999, 1, 1))
    /\ dec = Converted([year |-> 999, month |-> 1, day |-> 1])
    /\ reenc = Panic

(***************************************************************************)
(* Row (src/row/mod.rs): value slots that can be taken, and the shared     *)
(* column list.  A column is its name; a slot is None once taken.  What a  *)
(* call returns is Absent / Present(x) for an Option, Returned(x) for a    *)
(* plain value, and Panic.                                                 *)
(***************************************************************************)
Absent == [tag |-> "None"]
Present(x) == [tag |-> "Some", val |-> x]
Returned(x) == [tag |-> "Returned", val |-> x]

\* An index is a position (usize) or a column name (&str)
Position(n) == [kind |-> "usize", at |-> n]
Named(s) == [kind |-> "str", name |-> s]

\* A new_row without its assertion (used to see that C15 depends on it)
NewRowUnchecked(vals, cols) ==
    [alive |-> TRUE, values |-> [k \in 1..Len(vals) |-> Some(vals[k])], columns |-> cols]

\* new_row: assert!(values.len() == columns.len()), then every value present
new_row(vals, cols) ==
    IF Len(vals) # Len(cols) THEN Panic
    ELSE [alive |-> TRUE, values |-> [k \in 1..Len(vals) |-> Some(vals[k])], columns |-> cols]

\* Row::len
len(r) == Len(r.values)

\* A lookup by name that lets the last column of that name win (used to see
\* that C20 depends on the first match)
IdxLastNamed(index, columns) ==
    IF index.kind = "usize"
    THEN (IF index.at >= Len(columns) THEN None ELSE Some(index.at))
    ELSE (IF \E i \in 1..Len(columns) : columns[i] = index.name
          THEN Some((CHOOSE i \in 1..Len(columns) :
                        /\ columns[i] = index.name
                        /\ \A j \in (i + 1)..Len(columns) : columns[j] # index.name) - 1)
          ELSE None)

\* ColumnIndex::idx for usize and for &str (the first column of that name)
idx(index, columns) ==
    IF index.kind = "usize"
    THEN (IF index.at >= Len(columns) THEN None ELSE Some(index.at))
    ELSE (IF \E i \in 1..Len(columns) : columns[i] = index.name
          THEN Some((CHOOSE i \in 1..Len(columns) :
                        /\ columns[i] = index.name
                        /\ \A j \in 1..(i - 1) : columns[j] # index.name) - 1)
          ELSE None)

\* self.values.get(idx).and_then(|x| x.as_ref()), for an idx that may be None
SlotAt(r, i) ==
    IF i = None \/ i[1] >= Len(r.values) THEN None ELSE r.values[i[1] + 1]

\* An Option<&Value> as a call returns it
OptionOf(slot) == IF slot = None THEN Absent ELSE Present(slot[1])

\* Row::as_ref
as_ref(r, index) == OptionOf(SlotAt(r, Some(index)))

\* from_value::<T>(v), given the outcome r of from_value_opt::<T>(v): it is
\* from_value_opt(v).ok().expect(..), so an Err panics, and a from_value_opt
\* that itself panics or does not return ends the call the same way
from_value(r) ==
    CASE r.tag = "Ok" -> Present(r.val)
      [] r.tag = "Hang" -> Hang
      [] OTHER -> Panic

\* A map that unwraps the slot first (used to see that C16 depends on the
\* taken slot giving None rather than an abort)
MapFromValueUnwrapped(slot, T, bld) ==
    IF slot = None THEN Panic ELSE from_value(FromValueOpt(T, slot[1], bld))

\* .map(|x| from_value::<T>(x))
MapFromValue(slot, T, bld) ==
    IF slot = None THEN Absent ELSE from_value(FromValueOpt(T, slot[1], bld))

\* Some(from_value_opt::<T>(x)), given the outcome r of from_value_opt::<T>(x):
\* Some(Ok(..)) or Some(Err(..)) when it returns; when it panics or does not
\* return, so does the call
SomeFromValueOpt(r) == IF r.tag \in {"Ok", "Err"} THEN Present(r) ELSE r

\* The same with a failed conversion flattened into None
FlatFromValueOpt(r) == IF r.tag = "Err" THEN Absent ELSE SomeFromValueOpt(r)

\* A get_opt that flattens a failed conversion into None (used to see that
\* C17 tells a failed conversion from an absent value)
MapFromValueOptFlat(slot, T, bld) ==
    IF slot = None THEN Absent ELSE FlatFromValueOpt(FromValueOpt(T, slot[1], bld))

\* .and_then(|x| Some(from_value_opt::<T>(x)))
MapFromValueOpt(slot, T, bld) ==
    IF slot = None THEN Absent ELSE SomeFromValueOpt(FromValueOpt(T, slot[1], bld))

\* Row::get and Row::get_opt
get(r, T, index, bld) == MapFromValue(SlotAt(r, idx(index, r.columns)), T, bld)
get_opt(r, T, index, bld) == MapFromValueOpt(SlotAt(r, idx(index, r.columns)), T, bld)

\* .get_mut(idx).and_then(|x| x.take()): the row with the slot at idx emptied
Emptied(r, i) ==
    IF i = None \/ i[1] >= Len(r.values) THEN r
    ELSE [r EXCEPT !.values[i[1] + 1] = None]

\* A take_opt that keeps the value in the slot when the conversion fails
\* (used to see that C21 depends on the slot being emptied first)
TakeOptKeepsOnError(r, T, index, bld) ==
    [ret |-> get_opt(r, T, index, bld),
     row |-> IF get_opt(r, T, index, bld).tag = "Some" /\ get_opt(r, T, index, bld).val.tag = "Err"
             THEN r
             ELSE Emptied(r, idx(index, r.columns))]

\* Row::take and Row::take_opt: what is returned, and the row afterwards
take(r, T, index, bld) ==
    [ret |-> get(r, T, index, bld), row |-> Emptied(r, idx(index, r.columns))]
take_opt(r, T, index, bld) ==
    [ret |-> get_opt(r, T, index, bld), row |-> Emptied(r, idx(index, r.columns))]

\* An unwrap that skips taken slots instead of aborting (used to see that
\* C18 depends on the expect)
UnwrapPresent(r) ==
    Returned([k \in 1..Len(SelectSeq(r.values, LAMBDA x : x # None)) |->
                SelectSeq(r.values, LAMBDA x : x # None)[k][1]])

\* Row::unwrap: x.expect("Can't unwrap row if some of columns was taken")
unwrap(r) ==
    IF \E k \in 1..Len(r.values) : r.values[k] = None THEN Panic
    ELSE Returned([k \in 1..Len(r.values) |-> r.values[k][1]])

\* Row::place: self.values[index] = Some(value)
place(r, index, value) ==
    IF index >= Len(r.values) THEN Panic
    ELSE [r EXCEPT !.values[index + 1] = Some(value)]

\* self.values[i].as_ref().unwrap(), for an i that may be None (no such column)
IndexAt(r, i) ==
    IF i = None \/ i[1] >= Len(r.values) THEN Panic
    ELSE IF r.values[i[1] + 1] = None THEN Panic
    ELSE Returned(r.values[i[1] + 1][1])

\* Index<usize> for Row and Index<&str> for Row
Index(r, index) ==
    IF index.kind = "usize" THEN IndexAt(r, Some(index.at))
    ELSE IndexAt(r, idx(index, r.columns))

\* fmt::Debug for Row: one field per (val, column) of the zip
TakenField == [tag |-> "<taken>"]

\* A formatting that unwraps every slot (used to see that C19 depends on the
\* placeholder)
FmtUnwrapped(r) ==
    IF \E k \in 1..Len(r.values) : r.values[k] = None THEN Panic
    ELSE Returned([k \in 1..Len(r.values) |->
                     [name |-> r.columns[k], field |-> r.values[k][1]]])

fmt(r) ==
    Returned([k \in 1..(IF Len(r.values) < Len(r.columns) THEN Len(r.values) ELSE Len(r.columns)) |->
                [name |-> r.columns[k],
                 field |-> IF r.values[k] = None THEN TakenField ELSE r.values[k][1]]])

(***************************************************************************)
(* SpecRow: one Row at a time, built by new_row and then used through its  *)
(* whole interface.  A call that panics leaves the row as it was when the  *)
(* panic was raised; unwrap consumes the row.                              *)
(***************************************************************************)
MaxColumns == 2

ColumnNames == {"a", "A", "b"}
LookupNames == ColumnNames \cup {"c"}
ColumnLists == UNION {[1..n -> ColumnNames] : n \in 0..MaxColumns}
\* The Bytes value is a time text whose fraction is four two-byte digits
RowValues ==
    {ValueInt(NumOf(1)), ValueNULL,
     ValueBytes(FormatHms(12, 2, 34, 56) \o Str(<<".">>) \o ArabicDigits(0, 4))}
ValueLists == UNION {[1..n -> RowValues] : n \in 0..MaxColumns}
Positions == 0..MaxColumns
Indexes == {Position(n) : n \in Positions} \cup {Named(s) : s \in LookupNames}
RowTargets == {Plain("bool"), Plain("Vec<u8>"), Plain("NaiveTime"), [base |-> "i32", opt |-> 1]}

InitRow == InitConv

RowUnchanged ==
    UNCHANGED <<build, target, src, res, out, host, enc, dec, reenc, text, parsed>>

NewRow ==
    /\ ~row.alive
    /\ \E vals \in ValueLists, cols \in ColumnLists :
          /\ arg' = [values |-> vals, columns |-> cols]
          /\ IF new_row(vals, cols) = Panic
             THEN /\ ret' = Panic
                  /\ row' = NoRow
             ELSE /\ ret' = Returned(len(new_row(vals, cols)))
                  /\ row' = new_row(vals, cols)
    /\ pc' = "new_row"
    /\ RowUnchanged

RowLen ==
    /\ row.alive
    /\ arg' = [before |-> row]
    /\ ret' = Returned(len(row))
    /\ pc' = "len"
    /\ UNCHANGED row
    /\ RowUnchanged

RowAsRef ==
    /\ row.alive
    /\ \E n \in Positions :
          /\ arg' = [index |-> Position(n), before |-> row]
          /\ ret' = as_ref(row, n)
    /\ pc' = "as_ref"
    /\ UNCHANGED row
    /\ RowUnchanged

RowGet ==
    /\ row.alive
    /\ \E T \in RowTargets, index \in Indexes :
          /\ arg' = [index |-> index, type |-> T, before |-> row]
          /\ ret' = get(row, T, index, build)
    /\ pc' = "get"
    /\ UNCHANGED row
    /\ RowUnchanged

RowGetOpt ==
    /\ row.alive
    /\ \E T \in RowTargets, index \in Indexes :
          /\ arg' = [index |-> index, type |-> T, before |-> row]
          /\ ret' = get_opt(row, T, index, build)
    /\ pc' = "get_opt"
    /\ UNCHANGED row
    /\ RowUnchanged

RowTake ==
    /\ row.alive
    /\ \E T \in RowTargets, index \in Indexes :
          /\ arg' = [index |-> index, type |-> T, before |-> row]
          /\ ret' = take(row, T, index, build).ret
          /\ row' = take(row, T, index, build).row
    /\ pc' = "take"
    /\ RowUnchanged

RowTakeOpt ==
    /\ row.alive
    /\ \E T \in RowTargets, index \in Indexes :
          /\ arg' = [index |-> index, type |-> T, before |-> row]
          /\ ret' = take_opt(row, T, index, build).ret
          /\ row' = take_opt(row, T, index, build).row
    /\ pc' = "take_opt"
    /\ RowUnchanged

RowUnwrap ==
    /\ row.alive
    /\ arg' = [before |-> row]
    /\ ret' = unwrap(row)
    /\ row' = NoRow
    /\ pc' = "unwrap"
    /\ RowUnchanged

RowPlace ==
    /\ row.alive
    /\ \E n \in Positions, v \in RowValues :
          /\ arg' = [index |-> Position(n), value |-> v, before |-> row]
          /\ IF place(row, n, v) = Panic
             THEN /\ ret' = Panic
                  /\ UNCHANGED row
             ELSE /\ ret' = Returned(None)
                  /\ row' = place(row, n, v)
    /\ pc' = "place"
    /\ RowUnchanged

RowIndex ==
    /\ row.alive
    /\ \E index \in Indexes :
          /\ arg' = [index |-> index, before |-> row]
          /\ ret' = Index(row, index)
    /\ pc' = "index"
    /\ UNCHANGED row
    /\ RowUnchanged

RowDebug ==
    /\ row.alive
    /\ arg' = [before |-> row]
    /\ ret' = fmt(row)
    /\ pc' = "fmt"
    /\ UNCHANGED row
    /\ RowUnchanged

NextRow ==
    \/ NewRow
    \/ RowLen
    \/ RowAsRef
    \/ RowGet
    \/ RowGetOpt
    \/ RowTake
    \/ RowTakeOpt
    \/ RowUnwrap
    \/ RowPlace
    \/ RowIndex
    \/ RowDebug

SpecRow == InitRow /\ [][NextRow]_vars

(***************************************************************************)
(* Properties of Row (SpecRow)                                             *)
(***************************************************************************)
\* The slots of r that are taken, as positions 1..len
TakenSlots(r) == {k \in 1..Len(r.values) : r.values[k] = None}

\* C15: in every reachable state the row has as many value slots as columns,
\* and len() is that number; new_row aborts exactly when it is given a
\* different number of values than columns, and then no row exists.
C15_LengthsAgree ==
    /\ row.alive =>
          /\ Len(row.values) = Len(row.columns)
          /\ len(row) = Len(row.columns)
    /\ pc = "new_row" =>
          /\ ret = Panic <=> Len(arg.values) # Len(arg.columns)
          /\ ret = Panic => ~row.alive
          /\ ret # Panic => row.alive /\ ret = Returned(Len(arg.columns))
    /\ pc = "len" => ret = Returned(Len(row.columns))

\* A row of two columns after a take and a place, one slot still taken
C15_Witness ==
    /\ pc = "place"
    /\ ret # Panic
    /\ row.alive
    /\ Len(row.columns) = 2
    /\ TakenSlots(row) # {}

\* A call by index (position or name) and a call by position only
ByIndex == {"get", "get_opt", "take", "take_opt"}

\* One step from a row in which slot k is taken
TakenSlotStep(k) ==
    /\ (pc' \in ByIndex /\ idx(arg'.index, row.columns) = Some(k - 1)) =>
          ret' = Absent /\ row' = row
    /\ (pc' = "as_ref" /\ arg'.index = Position(k - 1)) =>
          ret' = Absent /\ row' = row
    /\ (row'.alive /\ row'.values[k] # None) =>
          /\ pc' = "place"
          /\ arg'.index = Position(k - 1)
          /\ row'.values[k] = Some(arg'.value)

\* C16: while slot i is taken, get, get_opt, take, take_opt and as_ref on i
\* return absent (neither an error result nor an abort) and leave the slot
\* taken; a taken slot becomes present again only by place(i, v), and then
\* holds v.
C16_TakenStaysAbsent ==
    [][row.alive => \A k \in TakenSlots(row) : TakenSlotStep(k)]_vars

\* A take and a get_opt on a slot that an earlier take had emptied
C16_Witness ==
    /\ pc \in {"take", "get_opt"}
    /\ arg.index \in {Position(1), Named("b")}
    /\ idx(arg.index, arg.before.columns) = Some(1)
    /\ arg.before.values[2] = None
    /\ ret = Absent
    /\ row.values[2] = None

\* The index does not resolve to a column of r, or resolves to a taken slot
NoValueAt(r, index) ==
    \/ idx(index, r.columns) = None
    \/ r.values[idx(index, r.columns)[1] + 1] = None

\* One step that is a get or a get_opt
GetStep ==
    /\ row' = row
    /\ ret' = Absent <=> NoValueAt(row, arg'.index)
    /\ pc' = "get_opt" => get_opt(row', arg'.type, arg'.index, build') = ret'

\* C17: get and get_opt leave every slot and the column list as they were,
\* whether the conversion succeeds, fails or the index does not resolve, so
\* the same get_opt on the resulting row returns the same outcome; they
\* return absent exactly when the index does not resolve or the slot is taken.
C17_GetLeavesRow ==
    [][pc' \in {"get", "get_opt"} => GetStep]_vars

\* A get_opt whose conversion failed, and the row still holds the value
C17_Witness ==
    /\ pc = "get_opt"
    /\ ret.tag = "Some"
    /\ ret.val.tag = "Err"
    /\ row = arg.before
    /\ ~NoValueAt(row, arg.index)

\* One step that is an unwrap, from the row as it was before the call
UnwrapStep ==
    /\ ret' = Panic <=> TakenSlots(row) # {}
    /\ ret' # Panic =>
          /\ ret'.tag = "Returned"
          /\ Len(ret'.val) = len(row)
          /\ \A k \in 1..len(row) : row.values[k] = Some(ret'.val[k])
    /\ (pc = "place" /\ ret # Panic /\ ret' # Panic) =>
          ret'.val[arg.index.at + 1] = arg.value

\* C18: unwrap aborts exactly when at least one slot is taken at that moment;
\* otherwise it returns len() values, position i holding the value of slot i,
\* and a slot that place has just filled contributes the placed value.
C18_UnwrapAllOrAbort ==
    [][pc' = "unwrap" => UnwrapStep]_vars

\* An unwrap of a complete two-column row that returned both values in order
C18_Witness ==
    /\ pc = "unwrap"
    /\ ret.tag = "Returned"
    /\ Len(ret.val) = 2
    /\ arg.before.values = <<Some(ret.val[1]), Some(ret.val[2])>>
    /\ ret.val[1] # ret.val[2]
    /\ ~row.alive

\* What Debug formatting has to show for slot k of r
Rendered(r, k, shown) ==
    /\ shown.name = r.columns[k]
    /\ shown.field = TakenField <=> k \in TakenSlots(r)
    /\ k \notin TakenSlots(r) => r.values[k] = Some(shown.field)

\* One step that is row[i] or a Debug formatting
IndexOrDebugStep ==
    /\ (pc' = "index" /\ arg'.index.kind = "usize"
            /\ arg'.index.at + 1 \in TakenSlots(row)) =>
          ret' = Panic /\ row' = row
    /\ pc' = "fmt" =>
          /\ ret'.tag = "Returned"
          /\ Len(ret'.val) = len(row)
          /\ \A k \in 1..len(row) : Rendered(row, k, ret'.val[k])
          /\ row' = row

\* C19: row[i] on a taken slot i aborts, while Debug formatting of the same
\* row completes and shows, in column order, every column name with the
\* "<taken>" placeholder for exactly the taken slots and the current value
\* for the present ones.
C19_IndexAbortsDebugShows ==
    [][IndexOrDebugStep]_vars

\* A Debug formatting of a row with one taken and one present slot
C19_Witness ==
    /\ pc = "fmt"
    /\ row.alive
    /\ Len(row.values) = 2
    /\ row.values[1] = None
    /\ row.values[2] # None
    /\ ret.tag = "Returned"
    /\ ret.val[1].field = TakenField
    /\ ret.val[2].field = row.values[2][1]

\* The positions 1..len of the columns whose name is exactly this name
NamedPositions(columns, name) == {k \in 1..Len(columns) : columns[k] = name}

Lowest(S) == CHOOSE k \in S : \A j \in S : k <= j

\* A call by name that has to behave as the same call on position p (0-based)
SameAsByPosition(p) ==
    /\ pc' = "get" => ret' = get(row, arg'.type, p, build) /\ row' = row
    /\ pc' = "get_opt" => ret' = get_opt(row, arg'.type, p, build) /\ row' = row
    /\ pc' = "take" =>
          /\ ret' = take(row, arg'.type, p, build).ret
          /\ row' = take(row, arg'.type, p, build).row
    /\ pc' = "take_opt" =>
          /\ ret' = take_opt(row, arg'.type, p, build).ret
          /\ row' = take_opt(row, arg'.type, p, build).row
    /\ pc' = "index" => ret' = Index(row, p) /\ row' = row

\* A call by name that finds no value: absent, or an abort for Index
NothingByName == ret' = (IF pc' = "index" THEN Panic ELSE Absent) /\ row' = row

\* One step that is a call by name
ByNameStep(name) ==
    IF NamedPositions(row.columns, name) = {} THEN NothingByName
    ELSE /\ SameAsByPosition(Position(Lowest(NamedPositions(row.columns, name)) - 1))
         /\ row.values[Lowest(NamedPositions(row.columns, name))] = None => NothingByName

\* C20: get, get_opt, take, take_opt and Index by name act on the lowest
\* position whose column name equals the given name exactly, never on a
\* later column of the same name: once that first slot is taken they give
\* absent (Index aborts) although a later same-named slot is present; a name
\* that matches no column gives absent for get/take and an abort for Index.
C20_FirstNameWins ==
    [][(pc' \in ByIndex \cup {"index"} /\ arg'.index.kind = "str") =>
          ByNameStep(arg'.index.name)]_vars

\* A get by a duplicated name whose first slot is taken and second present
C20_Witness ==
    /\ pc = "get"
    /\ arg.index = Named("a")
    /\ row.alive
    /\ row.columns = <<"a", "a">>
    /\ row.values[1] = None
    /\ row.values[2] # None
    /\ ret = Absent

\* A take_opt that found a value in slot k of the row it was called on
TookSlot(k) ==
    /\ ret' = get_opt(row, arg'.type, arg'.index, build)
    /\ ret' # Absent
    /\ (ret'.tag = "Some" /\ ret'.val.tag = "Err") => Some(ret'.val.value) = row.values[k]
    /\ row'.alive
    /\ row'.columns = row.columns
    /\ Len(row'.values) = Len(row.values)
    /\ row'.values[k] = None
    /\ \A j \in 1..Len(row.values) : j # k => row'.values[j] = row.values[j]

\* One step that is a take_opt
TakeOptStep ==
    IF NoValueAt(row, arg'.index)
    THEN ret' = Absent /\ row' = row
    ELSE TookSlot(idx(arg'.index, row.columns)[1] + 1)

\* C21: take_opt on a present slot returns what get_opt returns on that row
\* and leaves the slot empty whether the conversion succeeded or failed (on
\* failure the error carries the value), every other slot and the column list
\* being unchanged; on an index that does not resolve or on a taken slot it
\* returns absent and changes nothing.
C21_TakeOptEmptiesSlot ==
    [][pc' = "take_opt" => TakeOptStep]_vars

\* A take_opt whose conversion failed: the slot is empty, the other one kept
C21_Witness ==
    /\ pc = "take_opt"
    /\ ret.tag = "Some"
    /\ ret.val.tag = "Err"
    /\ Len(row.values) = 2
    /\ arg.index = Position(0)
    /\ arg.before.values[1] = Some(ret.val.value)
    /\ row.values[1] = None
    /\ row.values[2] # None
    /\ row.values[2] = arg.before.values[2]

(***************************************************************************)
(* Properties of the unsigned duration target (SpecConv, SpecDuration)     *)
(***************************************************************************)
\* days*86400 + hours*3600 + minutes*60 + seconds whole seconds plus
\* microseconds microseconds, as a Duration keeps it (nanos < 10^9)
ExactDuration(days, hours, minutes, seconds, microseconds) ==
    [secs  |-> NumAdd(NumAdd(NumMulSmall(NumMulSmall(NumOf(days), 864), 100),
                             NumOf(hours * 3600 + minutes * 60 + seconds)),
                      NumOf(microseconds \div 1000000)),
     nanos |-> (microseconds % 1000000) * 1000]

\* C22: a Time value without the sign flag converts to the unsigned Duration
\* without aborting, and the result is exactly days*86400 + hours*3600 +
\* minutes*60 + seconds seconds plus microseconds microseconds, whatever the
\* microsecond field holds.
C22_TimeToDurationExact ==
    (pc = "from_value_opt" /\ target = Plain("Duration") /\ src.tag = "Time" /\ ~src.neg) =>
        out = Converted(ExactDuration(src.days, src.hours, src.minutes, src.seconds, src.micros))

\* The same for microsecond fields whose product by 1000 fits in 32 bits
C22_ExactUpToU32 ==
    (pc = "from_value_opt" /\ target = Plain("Duration") /\ src.tag = "Time" /\ ~src.neg
        /\ src.micros <= 4294967) =>
        out = Converted(ExactDuration(src.days, src.hours, src.minutes, src.seconds, src.micros))

(***************************************************************************)
(* SpecDuration: From<Duration> for Value on host durations, then the      *)
(* decoding of the encoded value back to Duration.  A host duration is its *)
(* whole seconds (as_secs, u64) and its subsec_nanos (below 10^9).         *)
(***************************************************************************)
\* One limb of a long division by k (k <= 2^15 keeps acc.r * Limb in range)
DivLimb(acc, limb, k) ==
    [q |-> Append(acc.q, (acc.r * Limb + limb) \div k), r |-> (acc.r * Limb + limb) % k]

\* Quotient (.q) and remainder (.r) of a non-negative u64 by a small k
NumDivMod(x, k) ==
    DivLimb(DivLimb(DivLimb(DivLimb([q |-> <<>>, r |-> 0], x[1], k), x[2], k), x[3], k), x[4], k)

\* (x.subsec_nanos() as f64 / 1000_f64).round() as u32: the quotient is exact
\* or off by far less than the distance to a half, and round() takes halves up
RoundedMicros(nanos) == (nanos + 500) \div 1000

\* The Time fields of secs_total, where secs_total % 60 has been subtracted in
\* `rest` and hourly is rest / 3600: (rest % 86400) / 3600 = hourly % 24 and
\* (rest - minutes*60 - hours*3600) / 86400 = hourly / 24; days `as u32`
DurationFields(rest, hourly, seconds, micros) ==
    ValueTime(FALSE,
              ToInt(Wrap(NumDivMod(hourly, 24).q, 32, FALSE)),
              NumDivMod(hourly, 24).r,
              NumDivMod(rest, 3600).r \div 60,
              seconds,
              micros)

FromDurationSeconds(secs_total, rest, micros) ==
    DurationFields(rest, NumDivMod(rest, 3600).q, NumDivMod(secs_total, 60).r, micros)

\* impl From<Duration> for Value
FromDuration(x) ==
    FromDurationSeconds(x.secs, NumSub(x.secs, NumOf(NumDivMod(x.secs, 60).r)),
                        RoundedMicros(x.nanos))

\* Host durations: whole seconds around every field boundary, up to a day
\* count of 2^31 - 1, and sub-second parts around every rounding boundary
HostSeconds ==
    {NumOf(n) : n \in {0, 1, 59, 60, 61, 3599, 3600, 3661, 86399, 86400, 90061, 2147483647}}
    \cup {NumAdd(NumMulSmall(NumMulSmall(NumOf(d), 864), 100), NumOf(r)) :
            d \in {49710, 2147483647}, r \in {0, 86399}}
HostNanos ==
    {0, 1, 499, 500, 999, 1000, 1499, 1500, 123456789, 999999000, 999999499,
     999999500, 999999999}
HostDurations == {[secs |-> sec, nanos |-> n] : sec \in HostSeconds, n \in HostNanos}

InitDuration == InitConv

EncodeDuration ==
    /\ pc = "idle"
    /\ \E x \in HostDurations :
        /\ host' = [type |-> "Duration", val |-> x]
        /\ enc' = FromDuration(x)
    /\ pc' = "duration_encoded"
    /\ UNCHANGED <<build, target, src, res, out, dec, reenc, text, parsed, row, arg, ret>>

DecodeDuration ==
    /\ pc = "duration_encoded"
    /\ target' = Plain("Duration")
    /\ src' = enc
    /\ dec' = FromValueOpt(Plain("Duration"), enc, build)
    /\ pc' = "duration_decoded"
    /\ UNCHANGED <<build, res, out, host, enc, reenc, text, parsed, row, arg, ret>>

NextDuration == EncodeDuration \/ DecodeDuration

SpecDuration == InitDuration /\ [][NextDuration]_vars

\* b - a in nanoseconds is at most 1000, for durations a <= b
AtMostMicroAbove(a, b) ==
    \/ a.secs = b.secs /\ a.nanos <= b.nanos /\ b.nanos - a.nanos <= 1000
    \/ NumAdd(a.secs, NumOf(1)) = b.secs /\ b.nanos + 1000000000 - a.nanos <= 1000

\* Two durations within one microsecond of each other
WithinMicro(a, b) == AtMostMicroAbove(a, b) \/ AtMostMicroAbove(b, a)

\* The encoded Time has normalised hours, minutes and seconds that add up to
\* the whole seconds of x, and its microseconds are within one of x's
\* sub-second part and at most `top`
EncodedWithin(x, v, top) ==
    /\ v.tag = "Time" /\ ~v.neg
    /\ v.hours < 24 /\ v.minutes < 60 /\ v.seconds < 60
    /\ v.micros <= top
    /\ SecsOf(v.days, v.hours, v.minutes, v.seconds) = x.secs
    /\ v.micros * 1000 - x.nanos < 1000
    /\ x.nanos - v.micros * 1000 < 1000

\* The encoded Time decodes to a duration within one microsecond of x
DecodedWithin(x) ==
    pc = "duration_decoded" => dec.tag = "Ok" /\ WithinMicro(dec.val, x)

\* C23: encoding an unsigned duration whose day count fits in 32 bits gives
\* Time(false, d, h, m, s, us) with h < 24, m < 60, s < 60, us < 1000000,
\* d*86400 + h*3600 + m*60 + s the whole seconds and us the sub-second part
\* in microseconds; decoding it gives a duration within one microsecond.
C23_DurationEncodingNormalised ==
    pc \in {"duration_encoded", "duration_decoded"} =>
        /\ EncodedWithin(host.val, enc, 999999)
        /\ DecodedWithin(host.val)

\* The same with a microsecond field of 1000000 allowed
C23_NormalisedButForMicros ==
    pc \in {"duration_encoded", "duration_decoded"} =>
        /\ EncodedWithin(host.val, enc, 1000000)
        /\ DecodedWithin(host.val)

(***************************************************************************)
(* The slices handed to parse_micros (SpecParse)                           *)
(***************************************************************************)
\* The slice parse_mysql_datetime_string passes to parse_micros, if it calls it
DatetimeMicrosArgs(bytes) ==
    IF DateTimeKind(bytes) = "YmdHmsMs" THEN {Slice(bytes, 20, Len(bytes))} ELSE {}

\* The slice parse_mysql_time_string passes to parse_micros for the input
\* without its sign, if it calls it
StrippedMicrosArgs(bytes) ==
    CASE TimeKind(bytes) = "HhMmSsMs"  -> {Slice(bytes, 9, Len(bytes))}
      [] TimeKind(bytes) = "HhhMmSsMs" -> {Slice(bytes, 10, Len(bytes))}
      [] OTHER -> {}

TimeMicrosArgs(bytes) ==
    IF Len(bytes) < 8 THEN {} ELSE StrippedMicrosArgs(StripSign(bytes))

\* C24: every slice that parse_mysql_datetime_string or parse_mysql_time_string
\* hands to parse_micros holds 1 to 6 bytes, so the padding count 6 - len is
\* never negative, for every input the layout patterns accept.
C24_MicrosSliceOneToSix ==
    /\ pc = "datetime" => \A sl \in DatetimeMicrosArgs(text) : Len(sl) \in 1..6
    /\ pc = "time" => \A sl \in TimeMicrosArgs(text) : Len(sl) \in 1..6

\* The same for parse_mysql_datetime_string alone, and for ASCII time texts
C24_DatetimeSliceOneToSix ==
    /\ pc = "datetime" => \A sl \in DatetimeMicrosArgs(text) : Len(sl) \in 1..6
    /\ (pc = "time" /\ IsAscii(text)) => \A sl \in TimeMicrosArgs(text) : Len(sl) \in 1..6

====
